---- MODULE Spec2Model ----
(***************************************************************************)
(* Model of the knowledge-graph core of Lumora                             *)
(* (src/knowledge graph/kg_agent.py): the label validator, the store       *)
(* adapter AsyncKnowledgeGraph and the reconciler                          *)
(* AsyncKnowledgeGraphAgent.process_task; and of two of its users: the     *)
(* interaction log of the Observer (src/agents/observer.py) and the mail   *)
(* polling of GmailMonitor (src/integrations/gmail.py).                    *)
(*                                                                         *)
(* Text is modelled at character level where the code inspects it: a       *)
(* label is a sequence of one-character strings.  Property names are       *)
(* strings, joined with \o as the code's f-strings join them.              *)
(***************************************************************************)
EXTENDS Integers, Sequences, FiniteSets, TLC

VARIABLES
    label,      \* SpecLabel: the string handed to _validate_label
    verdict,    \* SpecLabel: "pending", "ok" or "ValueError"
    store,      \* the store double: nodes, edges, number of session.run calls
    before,     \* SpecAdapter: the store as it was when the last adapter call was made
    call,       \* SpecAdapter: the adapter call last made by the caller
    outcome,    \* SpecAdapter: what that call did: [kind, value]
    sent,       \* SpecAdapter: the statement that call sent to the store, if any
    ncalls,     \* SpecAdapter: how many adapter calls the caller has made
    extractor,  \* Spec: "source" (extract_entities_from_task as written) or "stand_in"
    pc,         \* Spec: where each process_task call is
    task,       \* Spec: the task record each call was given
    extraction, \* Spec: the value extract_entities_from_task returned to each call
    ei,         \* Spec: index of the next entity of the loop of lines 310-320
    ri,         \* Spec: index of the next relationship of the loop of lines 324-334
    created_entities,
    created_relationships,
    errors,
    raised,     \* Spec: the exception that left each process_task call, if any
    asked,      \* Spec: how often each call called extract_entities_from_task
    reply,      \* Spec: what the language model answered to each call, once invoked
    trail,      \* Spec: history of each call: one entry per item the loops went through
    order,      \* Spec: the process_task calls that have finished, in the order they finished
    learn,      \* Spec: the learn_from_tasks call that awaits the gather of the calls
    qa,         \* SpecQA: each answer_question call: where it is, its question, what
                \* the delegated agent did, and what the call gave its caller
    cancelled,  \* SpecCancel: the process_task calls whose task was cancelled at an await
    interaction_history, \* SpecObserver: Observer.interaction_history, the log
    observing,  \* SpecObserver: each observe_email_interaction call: where it is, its input
    fetcher,    \* SpecGmail: "source" (fetch_emails as written) or "stand_in"
    mail,       \* SpecGmail: GmailMonitor.mail: "absent", "connected" or "logged_out"
    processed_emails, \* SpecGmail: GmailMonitor.processed_emails
    fetches,    \* SpecGmail: history, one record per fetch_emails call
    iterations  \* SpecGmail: history, one record per iteration of monitor_inbox

labelVars == <<label, verdict>>
adapterVars == <<before, call, outcome, sent, ncalls>>
agentVars == <<extractor, pc, task, extraction, ei, ri, created_entities,
               created_relationships, errors, raised, asked, reply, trail, order, learn>>
qaVars == <<qa>>
cancelVars == <<cancelled>>
observerVars == <<interaction_history, observing>>
gmailVars == <<fetcher, mail, processed_emails, fetches, iterations>>
vars == <<labelVars, store, adapterVars, agentVars, qaVars, cancelVars, observerVars, gmailVars>>

(***************************************************************************)
(* Bounds                                                                  *)
(***************************************************************************)
MaxLabelLen == 3
MaxCalls == 3
NumProcs == 2
MaxEntities == 2
MaxRels == 1
\* fetch_emails calls and monitor_inbox iterations on one GmailMonitor
MaxFetches == 2
MaxIterations == 2

(***************************************************************************)
(* Characters.  One representative per class the pattern distinguishes:    *)
(* ASCII letters, a digit, the underscore, `;', a space, the newline and   *)
(* one non-ASCII punctuation mark (U+00BF, written as a token).            *)
(***************************************************************************)
Letters == {"A", "b"}
Digits == {"7"}
NonAsciiPunct == "u00BF"
Alphabet == Letters \cup Digits \cup {"_", ";", " ", "\n", NonAsciiPunct}

RECURSIVE SeqsUpTo(_, _)
SeqsUpTo(S, n) ==
    IF n = 0 THEN {<<>>}
    ELSE LET shorter == SeqsUpTo(S, n - 1)
         IN  shorter \cup {Append(s, c) : s \in {t \in shorter : Len(t) = n - 1}, c \in S}

AllLabels == SeqsUpTo(Alphabet, MaxLabelLen)

\* The labels initialize_schema names (lines 128-130), and their letters.
TaskLabel == <<"T", "a", "s", "k">>
PersonLabel == <<"P", "e", "r", "s", "o", "n">>
ToolLabel == <<"T", "o", "o", "l">>
SchemaLetters == {"T", "a", "s", "k", "P", "e", "r", "o", "n", "l"}

\* [A-Za-z]
IsLetter(c) == c \in Letters \cup SchemaLetters
\* [A-Za-z0-9_]
IsWordChar(c) == IsLetter(c) \/ c \in Digits \cup {"_"}

\* The whole of s is [A-Za-z][A-Za-z0-9_]* (what the pattern is written to mean).
FullPattern(s) ==
    /\ Len(s) >= 1
    /\ IsLetter(s[1])
    /\ \A i \in 2..Len(s) : IsWordChar(s[i])

\* re.match(r'^[A-Za-z][A-Za-z0-9_]*$', s): without re.MULTILINE `$' matches at
\* the end of the string and also just before a newline that ends the string.
ReMatch(s) ==
    \/ FullPattern(s)
    \/ /\ Len(s) >= 2
       /\ s[Len(s)] = "\n"
       /\ FullPattern(SubSeq(s, 1, Len(s) - 1))

\* _validate_label: returns None when the label matches, raises ValueError otherwise.
ValidateLabel(s) == IF ReMatch(s) THEN "ok" ELSE "ValueError"

(***************************************************************************)
(* Python values the adapter receives.  A property map is a dict; an       *)
(* extraction written by a language model may also carry None.             *)
(***************************************************************************)
PyNone == [py |-> "None"]
Dict(f) == [py |-> "dict", items |-> f]
IsDict(v) == v.py = "dict"
\* Python truthiness of a dict or None: `if not properties', `if rel_props'.
Truthy(v) == IsDict(v) /\ DOMAIN v.items # {}
Keys(v) == DOMAIN v.items

EmptyMap == [k \in {} |-> "x"]

\* str(label): the characters of a label joined into one string.
RECURSIVE Text(_)
Text(s) == IF s = <<>> THEN "" ELSE Head(s) \o Text(Tail(s))

\* Property names in the order a dict built in that order iterates them.
KeyOrder == <<"name", "id", "to_name", "rel_name", "task_id">>
OrderedKeys(ks) == SelectSeq(KeyOrder, LAMBDA k : k \in ks)

\* sep.join(parts)
RECURSIVE Join(_, _)
Join(sep, parts) ==
    IF parts = <<>> THEN ""
    ELSE IF Len(parts) = 1 THEN parts[1]
    ELSE parts[1] \o sep \o Join(sep, Tail(parts))

(***************************************************************************)
(* The store double: a property graph that counts the statements it is     *)
(* sent (session.run).  A statement is its text and its bound parameters.  *)
(* The schema is the uniqueness constraints and the indexes the store      *)
(* holds, each a list of [label, key] rules in the order they were made.   *)
(***************************************************************************)
NoQuery == [text |-> "", params |-> EmptyMap]
EmptyStore == [nodes |-> <<>>, edges |-> {}, runs |-> 0,
               constraints |-> <<>>, indexes |-> <<>>]

IsSpace(c) == c \in {" ", "\n"}
RECURSIVE StripLeft(_)
StripLeft(s) == IF s # <<>> /\ IsSpace(Head(s)) THEN StripLeft(Tail(s)) ELSE s
RECURSIVE StripRight(_)
StripRight(s) ==
    IF s # <<>> /\ IsSpace(s[Len(s)]) THEN StripRight(SubSeq(s, 1, Len(s) - 1)) ELSE s
\* How the store's parser reads label text interpolated into a statement:
\* white space around a name is not part of the name.
StoreLabel(s) == StripLeft(StripRight(s))
\* The store parses the interpolated text as one label.
StoreParses(s) == FullPattern(StoreLabel(s))

\* a.k = $v for every bound property: a node without k does not match.
MatchesAny(node, lab, props) ==
    /\ node.label = StoreLabel(lab)
    /\ \E k \in DOMAIN props : k \in DOMAIN node.props /\ node.props[k] = props[k]
Matches(node, lab, props) ==
    /\ node.label = StoreLabel(lab)
    /\ \A k \in DOMAIN props : k \in DOMAIN node.props /\ node.props[k] = props[k]
MatchIds(s, lab, props) ==
    {i \in 1..Len(s.nodes) : Matches(s.nodes[i], lab, props)}

Query(text, params) == [text |-> text, params |-> params]
\* session.run(query, **params) reached the store
Issued(s) == [s EXCEPT !.runs = @ + 1]

Return(s, q, v) == [store |-> s, query |-> q, kind |-> "return", value |-> v]
Raise(s, q, exc, msg) ==
    [store |-> s, query |-> q, kind |-> "raise", value |-> [exc |-> exc, msg |-> msg]]

InvalidLabelMsg == "Invalid entity type"

(***************************************************************************)
(* AsyncKnowledgeGraph: the adapter's operations.  Each takes the store    *)
(* and returns [store, kind, value]: kind is "return" or "raise".  `fail'  *)
(* is the store's own failure of the statement (connectivity), which the   *)
(* driver raises out of session.run.                                       *)
(***************************************************************************)
StoreFailure(s, q) == Raise(s, q, "Neo4jError", "store failure")

\* ", ".join([f"{k}: ${k}" for k in properties.keys()])
PropsString(properties) ==
    LET ks == OrderedKeys(Keys(properties))
    IN  Join(", ", [i \in 1..Len(ks) |-> ks[i] \o ": $" \o ks[i]])

\* " AND ".join([f"{var}.{k} = ${prefix}{k}" for k in props])
WhereString(var, prefix, props) ==
    LET ks == OrderedKeys(Keys(props))
    IN  Join(" AND ", [i \in 1..Len(ks) |-> var \o "." \o ks[i] \o " = $" \o prefix \o ks[i]])

Rule(lab, key) == [label |-> lab, key |-> key]
Range(seq) == {seq[i] : i \in 1..Len(seq)}

\* The store refuses a node that repeats, under a uniqueness constraint, the
\* value another node of the label holds for the constrained key.
ConstraintViolatedNever(s, node) == FALSE
ConstraintViolated(s, node) ==
    \E r \in Range(s.constraints) :
        /\ r.label = node.label
        /\ r.key \in DOMAIN node.props
        /\ \E i \in 1..Len(s.nodes) :
              /\ s.nodes[i].label = r.label
              /\ r.key \in DOMAIN s.nodes[i].props
              /\ s.nodes[i].props[r.key] = node.props[r.key]
ConstraintFailure(s, q) == Raise(s, q, "ConstraintError", "already exists with label and property")

CreateEntity(s, entity_type, properties, fail) ==
    IF ValidateLabel(entity_type) = "ValueError"
    THEN Raise(s, NoQuery, "ValueError", InvalidLabelMsg)
    ELSE IF ~IsDict(properties)
    THEN Raise(s, NoQuery, "AttributeError", "object has no attribute keys")
    ELSE LET text == "CREATE (e:" \o Text(entity_type) \o " {"
                        \o PropsString(properties) \o "}) RETURN e"
             q == Query(text, properties.items)
             node == [label |-> StoreLabel(entity_type), props |-> properties.items]
         IN  IF fail THEN StoreFailure(Issued(s), q)
             ELSE IF ConstraintViolated(s, node) THEN ConstraintFailure(Issued(s), q)
             ELSE Return([Issued(s) EXCEPT !.nodes = Append(@, node)], q,
                         [summary |-> "Created entity", type |-> entity_type,
                          id |-> Len(s.nodes) + 1])

GetEntityNoEmptyCheck(s, entity_type, properties, fail) ==
    IF ValidateLabel(entity_type) = "ValueError"
    THEN Raise(s, NoQuery, "ValueError", InvalidLabelMsg)
    ELSE IF ~IsDict(properties)
    THEN Raise(s, NoQuery, "ValueError", "Properties cannot be empty for entity matching")
    ELSE LET text == "MATCH (e:" \o Text(entity_type) \o ") WHERE "
                        \o WhereString("e", "", properties) \o " RETURN e"
             q == Query(text, properties.items)
             found == MatchIds(s, entity_type, properties.items)
         IN  IF fail \/ Keys(properties) = {} THEN StoreFailure(Issued(s), q)
             ELSE IF found = {} THEN Return(Issued(s), q, [summary |-> "None"])
             ELSE LET first == CHOOSE i \in found : \A j \in found : i <= j
                  IN  Return(Issued(s), q, [summary |-> "node", id |-> first,
                                    node |-> s.nodes[first]])
GetEntity(s, entity_type, properties, fail) ==
    IF ValidateLabel(entity_type) = "ValueError"
    THEN Raise(s, NoQuery, "ValueError", InvalidLabelMsg)
    ELSE IF ~Truthy(properties)
    THEN Raise(s, NoQuery, "ValueError", "Properties cannot be empty for entity matching")
    ELSE LET text == "MATCH (e:" \o Text(entity_type) \o ") WHERE "
                        \o WhereString("e", "", properties) \o " RETURN e"
             q == Query(text, properties.items)
             found == MatchIds(s, entity_type, properties.items)
         IN  IF fail THEN StoreFailure(Issued(s), q)
             ELSE IF found = {} THEN Return(Issued(s), q, [summary |-> "None"])
             ELSE LET first == CHOOSE i \in found : \A j \in found : i <= j
                  IN  Return(Issued(s), q, [summary |-> "node", id |-> first,
                                    node |-> s.nodes[first]])

\* Parameter names by role: f"from_{k}", f"to_{k}", f"rel_{k}".
ParamNameUnprefixed(role, k) == k
ParamName(role, k) == role \o "_" \o k

\* {f"{prefix}{k}": v for k, v in props.items()}
Renamed(role, props) ==
    [n \in {ParamName(role, k) : k \in DOMAIN props} |->
        props[CHOOSE k \in DOMAIN props : ParamName(role, k) = n]]
\* params.update(more): a name already present takes the new value.
Update(params, more) == more @@ params

RelationshipParams(from_props, to_props, rel_props) ==
    LET p1 == Renamed("from", from_props.items)
        p2 == Update(p1, Renamed("to", to_props.items))
    IN  IF Truthy(rel_props) THEN Update(p2, Renamed("rel", rel_props.items)) ELSE p2

\* "$from_k", "$to_k" and, for a non-empty rel_props, "$rel_k" (lines 73-79).
RelationshipReferenced(from_props, to_props, rel_props) ==
    {"from_" \o k : k \in Keys(from_props)} \cup {"to_" \o k : k \in Keys(to_props)}
        \cup (IF Truthy(rel_props) THEN {"rel_" \o k : k \in Keys(rel_props)} ELSE {})

RelationshipText(from_type, from_props, rel_type, to_type, to_props, rel_props) ==
    LET ks == IF Truthy(rel_props) THEN OrderedKeys(Keys(rel_props)) ELSE <<>>
        rel_props_str ==
            IF Truthy(rel_props)
            THEN " {" \o Join(", ", [i \in 1..Len(ks) |-> ks[i] \o ": $rel_" \o ks[i]]) \o "}"
            ELSE ""
    IN  "MATCH (a:" \o Text(from_type) \o "), (b:" \o Text(to_type) \o ") WHERE "
            \o WhereString("a", "from_", from_props) \o " AND "
            \o WhereString("b", "to_", to_props)
            \o " CREATE (a)-[r:" \o Text(rel_type) \o rel_props_str \o "]->(b) RETURN a, r, b"

\* One edge per (source, destination) pair, numbered in creation order.
NewEdgesFirstPair(s, S, D, rel_type, rel_props) ==
    IF S = {} \/ D = {} THEN {}
    ELSE {[id |-> Cardinality(s.edges) + 1,
           from |-> CHOOSE a \in S : \A x \in S : a <= x,
           to |-> CHOOSE b \in D : \A x \in D : b <= x,
           type |-> StoreLabel(rel_type),
           props |-> IF Truthy(rel_props) THEN rel_props.items ELSE EmptyMap]}
NewEdges(s, S, D, rel_type, rel_props) ==
    LET base == Cardinality(s.edges)
        rank(a, b) == Cardinality({q \in S \X D :
                                      q[1] < a \/ (q[1] = a /\ q[2] <= b)})
    IN  {[id |-> base + rank(q[1], q[2]), from |-> q[1], to |-> q[2],
          type |-> StoreLabel(rel_type),
          props |-> IF Truthy(rel_props) THEN rel_props.items ELSE EmptyMap]
         : q \in S \X D}

\* Only from_type and to_type go through _validate_label (lines 69-70).
RelationshipLabelsValid(from_type, to_type) ==
    /\ ValidateLabel(from_type) = "ok"
    /\ ValidateLabel(to_type) = "ok"

CreateRelationshipNeedsMatch(s, from_type, from_props, rel_type, to_type, to_props, rel_props, fail) ==
    IF ~RelationshipLabelsValid(from_type, to_type)
    THEN Raise(s, NoQuery, "ValueError", InvalidLabelMsg)
    ELSE IF ~IsDict(from_props) \/ ~IsDict(to_props)
    THEN Raise(s, NoQuery, "TypeError", "object is not iterable")
    ELSE LET text == RelationshipText(from_type, from_props, rel_type,
                                      to_type, to_props, rel_props)
             q == Query(text, RelationshipParams(from_props, to_props, rel_props))
             S == MatchIds(s, from_type, from_props.items)
             D == MatchIds(s, to_type, to_props.items)
             \* "WHERE  AND ..." and a rel_type that is not one name do not parse
             syntaxError == \/ Keys(from_props) = {}
                            \/ Keys(to_props) = {}
                            \/ ~StoreParses(rel_type)
         IN  IF fail \/ syntaxError THEN StoreFailure(Issued(s), q)
             ELSE IF S \X D = {}
             THEN Raise(Issued(s), q, "TypeError", "NoneType object is not subscriptable")
             ELSE Return([Issued(s) EXCEPT
                             !.edges = @ \cup NewEdges(s, S, D, rel_type, rel_props)], q,
                         [summary |-> "Created relationship", from_type |-> from_type,
                          rel_type |-> rel_type, to_type |-> to_type])
CreateRelationship(s, from_type, from_props, rel_type, to_type, to_props, rel_props, fail) ==
    IF ~RelationshipLabelsValid(from_type, to_type)
    THEN Raise(s, NoQuery, "ValueError", InvalidLabelMsg)
    ELSE IF ~IsDict(from_props) \/ ~IsDict(to_props)
    THEN Raise(s, NoQuery, "TypeError", "object is not iterable")
    ELSE LET text == RelationshipText(from_type, from_props, rel_type,
                                      to_type, to_props, rel_props)
             q == Query(text, RelationshipParams(from_props, to_props, rel_props))
             S == MatchIds(s, from_type, from_props.items)
             D == MatchIds(s, to_type, to_props.items)
             \* "WHERE  AND ..." and a rel_type that is not one name do not parse
             syntaxError == \/ Keys(from_props) = {}
                            \/ Keys(to_props) = {}
                            \/ ~StoreParses(rel_type)
         IN  IF fail \/ syntaxError THEN StoreFailure(Issued(s), q)
             ELSE Return([Issued(s) EXCEPT
                             !.edges = @ \cup NewEdges(s, S, D, rel_type, rel_props)], q,
                         [summary |-> "Created relationship", from_type |-> from_type,
                          rel_type |-> rel_type, to_type |-> to_type])

\* Nodes joined to node i by one edge, in either direction.
Neighbours(s, i) ==
    {e.to : e \in {x \in s.edges : x.from = i}} \cup
    {e.from : e \in {x \in s.edges : x.to = i}}
RECURSIVE Within(_, _, _)
Within(s, from, depth) ==
    IF depth = 0 THEN {}
    ELSE LET near == UNION {Neighbours(s, i) : i \in from}
         IN  near \cup Within(s, near, depth - 1)

\* The WHERE clause names f"${entity_type}_{k}" while the call binds **properties.
RelatedReferenced(entity_type, properties) ==
    {Text(entity_type) \o "_" \o k : k \in Keys(properties)}

GetRelatedEntities(s, entity_type, properties, depth, fail) ==
    IF ValidateLabel(entity_type) = "ValueError"
    THEN Raise(s, NoQuery, "ValueError", InvalidLabelMsg)
    ELSE IF ~IsDict(properties)
    THEN Raise(s, NoQuery, "TypeError", "object is not iterable")
    ELSE LET text == "MATCH path = (e:" \o Text(entity_type) \o ")-[*1.."
                        \o ToString(depth) \o "]-(related) WHERE "
                        \o WhereString("e", Text(entity_type) \o "_", properties)
                        \o " RETURN related"
             q == Query(text, properties.items)
         IN  \* an empty WHERE does not parse
             IF fail \/ Keys(properties) = {} THEN StoreFailure(Issued(s), q)
             \* a referenced parameter must be bound
             ELSE IF ~(RelatedReferenced(entity_type, properties) \subseteq DOMAIN q.params)
             THEN Raise(Issued(s), q, "ClientError", "Expected parameter(s)")
             ELSE Return(Issued(s), q, [summary |-> "nodes",
                                ids |-> Within(s, MatchIds(s, entity_type, properties.items), depth)])

\* The five statements of initialize_schema, in the order they are sent
\* (lines 128-134).
SchemaStatements ==
    << [kind |-> "constraint", rule |-> Rule(TaskLabel, "task_id"),
        text |-> "CREATE CONSTRAINT IF NOT EXISTS FOR (t:Task) REQUIRE t.task_id IS UNIQUE"],
       [kind |-> "constraint", rule |-> Rule(PersonLabel, "name"),
        text |-> "CREATE CONSTRAINT IF NOT EXISTS FOR (p:Person) REQUIRE p.name IS UNIQUE"],
       [kind |-> "constraint", rule |-> Rule(ToolLabel, "name"),
        text |-> "CREATE CONSTRAINT IF NOT EXISTS FOR (t:Tool) REQUIRE t.name IS UNIQUE"],
       [kind |-> "index", rule |-> Rule(TaskLabel, "task_type"),
        text |-> "CREATE INDEX IF NOT EXISTS FOR (t:Task) ON (t.task_type)"],
       [kind |-> "index", rule |-> Rule(TaskLabel, "status"),
        text |-> "CREATE INDEX IF NOT EXISTS FOR (t:Task) ON (t.status)"] >>

\* CREATE ... IF NOT EXISTS: a rule the store holds already is left alone.
CreateIfNotExistsAlways(rules, rule) == Append(rules, rule)
CreateIfNotExists(rules, rule) == IF rule \in Range(rules) THEN rules ELSE Append(rules, rule)

\* Two nodes of the rule's label hold the same value for its key: the store
\* cannot create the uniqueness constraint.
HoldsDuplicates(s, rule) ==
    \E i, j \in 1..Len(s.nodes) :
        /\ i < j
        /\ s.nodes[i].label = rule.label /\ s.nodes[j].label = rule.label
        /\ rule.key \in DOMAIN s.nodes[i].props \cap DOMAIN s.nodes[j].props
        /\ s.nodes[i].props[rule.key] = s.nodes[j].props[rule.key]

\* The store runs one schema statement.
RunSchemaStatement(s, st) ==
    IF st.kind = "constraint"
    THEN [s EXCEPT !.constraints = CreateIfNotExists(@, st.rule)]
    ELSE [s EXCEPT !.indexes = CreateIfNotExists(@, st.rule)]

\* initialize_schema from statement i on; fail_at is the statement the store
\* fails for a reason of its own (0: none).
RECURSIVE InitializeSchemaFrom(_, _, _)
InitializeSchemaFrom(s, i, fail_at) ==
    LET st == SchemaStatements[i]
        q == Query(st.text, EmptyMap)
    IN  IF fail_at = i THEN StoreFailure(Issued(s), q)
        ELSE IF /\ st.kind = "constraint"
                /\ st.rule \notin Range(s.constraints)
                /\ HoldsDuplicates(s, st.rule)
        THEN Raise(Issued(s), q, "ConstraintError", "existing data violates the constraint")
        ELSE IF i = Len(SchemaStatements)
        THEN Return(RunSchemaStatement(Issued(s), st), q,
                    [summary |-> "Schema initialized with constraints and indexes"])
        ELSE InitializeSchemaFrom(RunSchemaStatement(Issued(s), st), i + 1, fail_at)

InitializeSchema(s, fail_at) == InitializeSchemaFrom(s, 1, fail_at)

(***************************************************************************)
(* Values the variables of one specification take while another runs.      *)
(***************************************************************************)
Procs == 1..NumProcs
NoCall == [op |-> "none"]
NoOutcome == [kind |-> "none"]
NoException == [exc |-> "none", msg |-> ""]
\* learn_from_tasks suspended at `await asyncio.gather(...)' (line 347)
Awaiting == [state |-> "awaiting"]

\* an answer_question call that has not been made
NotAsked == [pc |-> "idle"]
QaAtRest == qa = [p \in Procs |-> NotAsked]

CancelAtRest == cancelled = [p \in Procs |-> FALSE]
ObserverAtRest ==
    /\ interaction_history = <<>>
    /\ observing = [p \in Procs |-> [pc |-> "idle"]]
GmailAtRest ==
    /\ fetcher = "source"
    /\ mail = "absent"
    /\ processed_emails = {}
    /\ fetches = <<>>
    /\ iterations = <<>>
OthersAtRest == CancelAtRest /\ ObserverAtRest /\ GmailAtRest

LabelAtRest == label = <<>> /\ verdict = "pending"
AdapterAtRest ==
    /\ before = EmptyStore
    /\ call = NoCall
    /\ outcome = NoOutcome
    /\ sent = NoQuery
    /\ ncalls = 0
AgentAtRest ==
    /\ extractor = "source"
    /\ pc = [p \in Procs |-> "idle"]
    /\ task = [p \in Procs |-> PyNone]
    /\ extraction = [p \in Procs |-> PyNone]
    /\ ei = [p \in Procs |-> 1]
    /\ ri = [p \in Procs |-> 1]
    /\ created_entities = [p \in Procs |-> <<>>]
    /\ created_relationships = [p \in Procs |-> <<>>]
    /\ errors = [p \in Procs |-> <<>>]
    /\ raised = [p \in Procs |-> NoException]
    /\ asked = [p \in Procs |-> 0]
    /\ reply = [p \in Procs |-> [kind |-> "none"]]
    /\ trail = [p \in Procs |-> <<>>]
    /\ order = <<>>
    /\ learn = Awaiting

(***************************************************************************)
(* SpecLabel: _validate_label applied to every string of up to             *)
(* MaxLabelLen characters.                                                 *)
(***************************************************************************)
InitLabel ==
    /\ label \in AllLabels
    /\ verdict = "pending"
    /\ store = EmptyStore
    /\ AdapterAtRest
    /\ AgentAtRest
    /\ QaAtRest
    /\ OthersAtRest

Validate ==
    /\ verdict = "pending"
    /\ verdict' = ValidateLabel(label)
    /\ UNCHANGED <<label, store, adapterVars, agentVars, qaVars,
                   cancelVars, observerVars, gmailVars>>

NextLabel == Validate
SpecLabel == InitLabel /\ [][NextLabel]_vars

(***************************************************************************)
(* SpecAdapter: a caller makes up to MaxCalls calls of the adapter's       *)
(* operations on a store that starts empty.                                *)
(***************************************************************************)
TypePool == {<<"A">>, <<"b">>, <<"A", "\n">>, <<"7">>, <<>>, <<"A", ";">>, PersonLabel}
PropsPool == {Dict(EmptyMap), Dict("name" :> "x"), Dict("name" :> "y"),
              Dict(("name" :> "x") @@ ("id" :> "1")), PyNone}
FromTypePool == {<<"A">>, <<"A", "\n">>, <<"7">>}
ToTypePool == {<<"A">>, <<"7">>}
RelTypePool == {<<"b">>, <<"b", ";">>}
FromPropsPool == {Dict(EmptyMap), Dict("name" :> "x"),
                  Dict(("name" :> "x") @@ ("to_name" :> "z"))}
ToPropsPool == {Dict("name" :> "x"), Dict("name" :> "y")}
RelPropsPool == {PyNone, Dict("name" :> "r")}
DepthPool == {1, 2}

InitAdapter ==
    /\ store = EmptyStore
    /\ AdapterAtRest
    /\ LabelAtRest
    /\ AgentAtRest
    /\ QaAtRest
    /\ OthersAtRest

Called(c, r) ==
    /\ before' = store
    /\ call' = c
    /\ store' = r.store
    /\ outcome' = [kind |-> r.kind, value |-> r.value]
    /\ sent' = r.query
    /\ ncalls' = ncalls + 1
    /\ UNCHANGED <<labelVars, agentVars, qaVars,
                   cancelVars, observerVars, gmailVars>>

CallCreateEntity ==
    /\ ncalls < MaxCalls
    /\ \E t \in TypePool, props \in PropsPool, fail \in BOOLEAN :
        Called([op |-> "create_entity", entity_type |-> t, properties |-> props],
               CreateEntity(store, t, props, fail))

CallGetEntity ==
    /\ ncalls < MaxCalls
    /\ \E t \in TypePool, props \in PropsPool, fail \in BOOLEAN :
        Called([op |-> "get_entity", entity_type |-> t, properties |-> props],
               GetEntity(store, t, props, fail))

CallCreateRelationship ==
    /\ ncalls < MaxCalls
    /\ \E ft \in FromTypePool, fp \in FromPropsPool, rt \in RelTypePool,
          tt \in ToTypePool, tp \in ToPropsPool, rp \in RelPropsPool, fail \in BOOLEAN :
        Called([op |-> "create_relationship", from_type |-> ft, from_props |-> fp,
                rel_type |-> rt, to_type |-> tt, to_props |-> tp, rel_props |-> rp],
               CreateRelationship(store, ft, fp, rt, tt, tp, rp, fail))

CallGetRelatedEntities ==
    /\ ncalls < MaxCalls
    /\ \E t \in TypePool, props \in PropsPool, d \in DepthPool, fail \in BOOLEAN :
        Called([op |-> "get_related_entities", entity_type |-> t, properties |-> props,
                depth |-> d],
               GetRelatedEntities(store, t, props, d, fail))

CallInitializeSchema ==
    /\ ncalls < MaxCalls
    /\ \E fail_at \in 0..Len(SchemaStatements) :
        Called([op |-> "initialize_schema", fail_at |-> fail_at],
               InitializeSchema(store, fail_at))

NextAdapter ==
    \/ CallInitializeSchema
    \/ CallCreateEntity
    \/ CallGetEntity
    \/ CallCreateRelationship
    \/ CallGetRelatedEntities
SpecAdapter == InitAdapter /\ [][NextAdapter]_vars

(***************************************************************************)
(* AsyncKnowledgeGraphAgent.  What a language model may answer, and the    *)
(* extractions its JSON may hold: entities and relationships that are      *)
(* well formed, that lack a field, or that carry a label the validator     *)
(* rejects.                                                                *)
(***************************************************************************)
List(items) == [py |-> "list", items |-> items]
IsList(v) == v.py = "list"

NameX == Dict("name" :> "x")
EntGood == Dict(("type" :> <<"A">>) @@ ("properties" :> NameX))
EntNoProperties == Dict("type" :> <<"A">>)
EntNoType == Dict("properties" :> NameX)
EntBadLabel == Dict(("type" :> <<"7">>) @@ ("properties" :> NameX))
EntityPool == {EntGood, EntNoProperties, EntNoType, EntBadLabel}

RelFields(ft, rt) ==
    ("from_type" :> ft) @@ ("from_props" :> NameX) @@ ("rel_type" :> rt)
        @@ ("to_type" :> <<"A">>) @@ ("to_props" :> NameX)
RelGood == Dict(RelFields(<<"A">>, <<"b">>))
RelBadFromType == Dict(RelFields(<<"7">>, <<"b">>))
RelBadRelType == Dict(RelFields(<<"A">>, <<"b", ";">>))
RelNoToType == Dict([k \in {"from_type", "from_props", "rel_type", "to_props"} |->
                        RelFields(<<"A">>, <<"b">>)[k]])
RelPool == {RelGood, RelBadFromType, RelBadRelType, RelNoToType}

EmptyExtraction == Dict(("entities" :> List(<<>>)) @@ ("relationships" :> List(<<>>)))
ShapedExtractions ==
    {Dict(("entities" :> List(es)) @@ ("relationships" :> List(rs))) :
        es \in SeqsUpTo(EntityPool, MaxEntities), rs \in SeqsUpTo(RelPool, MaxRels)}
\* JSON the model may write that is not the {entities, relationships} shape
UnshapedExtractions ==
    {PyNone, List(<<>>), Dict(EmptyMap), Dict("entities" :> PyNone),
     Dict(("entities" :> List(<<EntGood>>)) @@ ("relationships" :> PyNone))}

NotJson == [kind |-> "content", json |-> FALSE]
Json(v) == [kind |-> "content", json |-> TRUE, value |-> v]
ModelRaises == [kind |-> "raise"]
Replies == {ModelRaises, NotJson} \cup {Json(v) : v \in ShapedExtractions \cup UnshapedExtractions}

TaskPool == {PyNone, Dict(EmptyMap), Dict("email" :> "Invoice #123")}

\* `if not task' (line 300)
TaskRejectedOnlyNone(t) == ~IsDict(t)
TaskRejected(t) == ~Truthy(t)

\* lines 289-295: json.loads(response.content), and the empty extraction when
\* that raises JSONDecodeError
ParseResponseNoFallback(content) == IF content.json THEN content.value ELSE PyNone
ParseResponse(content) == IF content.json THEN content.value ELSE EmptyExtraction

\* extraction.get(key, []) and the start of its iteration
GetList(ex, key) ==
    IF ~IsDict(ex) THEN [kind |-> "raise", exc |-> "AttributeError"]
    ELSE IF key \notin Keys(ex) THEN [kind |-> "ok", items |-> <<>>]
    ELSE IF ~IsList(ex.items[key]) THEN [kind |-> "raise", exc |-> "TypeError"]
    ELSE [kind |-> "ok", items |-> ex.items[key].items]

\* `except Exception' (lines 319, 333 and 355) catches the classes derived
\* from Exception; asyncio.CancelledError derives from BaseException.
CatchesEverything(exc) == TRUE
IsException(exc) == exc \notin {"CancelledError", "KeyboardInterrupt", "SystemExit"}

\* line 313
Malformed(entity) == "type" \notin Keys(entity) \/ "properties" \notin Keys(entity)

Entry(kind, idx, called, ran, ok) ==
    [kind |-> kind, idx |-> idx, called |-> called, ran |-> ran, ok |-> ok]
ErrorEntry(what, idx, item, msg) == [what |-> what, idx |-> idx, item |-> item, msg |-> msg]

\* One pass through the body of the entity loop (lines 311-320): what it
\* appends to created_entities and errors, and what it does to the store.
EntityPassSwallowsFailure(s, idx, entity, fail) ==
    IF Malformed(entity)
    THEN [store |-> s, created |-> <<>>,
          errors |-> <<ErrorEntry("Invalid entity structure", idx, entity, "")>>,
          entry |-> Entry("entity", idx, FALSE, FALSE, FALSE)]
    ELSE LET r == CreateEntity(s, entity.items["type"], entity.items["properties"], fail)
         IN  [store |-> r.store,
              created |-> IF r.kind = "return" THEN <<r.value>> ELSE <<>>,
              errors |-> <<>>,
              entry |-> Entry("entity", idx, TRUE, r.query # NoQuery, r.kind = "return")]
EntityPassNoValidation(s, idx, entity, fail) ==
    LET r == CreateEntity(s, IF "type" \in Keys(entity) THEN entity.items["type"] ELSE <<"A">>,
                          IF "properties" \in Keys(entity) THEN entity.items["properties"]
                          ELSE Dict(EmptyMap), fail)
    IN  [store |-> r.store,
         created |-> IF r.kind = "return" THEN <<r.value>> ELSE <<>>,
         errors |-> IF r.kind = "return" THEN <<>>
                    ELSE <<ErrorEntry("Error creating entity", idx, entity, r.value.msg)>>,
         entry |-> Entry("entity", idx, TRUE, r.query # NoQuery, r.kind = "return")]
EntityPass(s, idx, entity, fail) ==
    IF Malformed(entity)
    THEN [store |-> s, created |-> <<>>,
          errors |-> <<ErrorEntry("Invalid entity structure", idx, entity, "")>>,
          entry |-> Entry("entity", idx, FALSE, FALSE, FALSE)]
    ELSE LET r == CreateEntity(s, entity.items["type"], entity.items["properties"], fail)
         IN  [store |-> r.store,
              created |-> IF r.kind = "return" THEN <<r.value>> ELSE <<>>,
              errors |-> IF r.kind = "return" THEN <<>>
                         ELSE <<ErrorEntry("Error creating entity", idx, entity, r.value.msg)>>,
              entry |-> Entry("entity", idx, TRUE, r.query # NoQuery, r.kind = "return")]

\* rel["from_type"], rel["from_props"], rel["rel_type"], rel["to_type"], rel["to_props"]
RequiredRelFields == {"from_type", "from_props", "rel_type", "to_type", "to_props"}
\* rel.get("rel_props")
RelPropsOf(rel) == IF "rel_props" \in Keys(rel) THEN rel.items["rel_props"] ELSE PyNone

\* One pass through the body of the relationship loop (lines 325-334).
RelationshipPassKeepsNoSummary(s, idx, rel, fail) ==
    IF ~(RequiredRelFields \subseteq Keys(rel))
    THEN [store |-> s, created |-> <<>>,
          errors |-> <<ErrorEntry("Error creating relationship", idx, rel, "KeyError")>>,
          entry |-> Entry("relationship", idx, FALSE, FALSE, FALSE)]
    ELSE LET r == CreateRelationship(s, rel.items["from_type"], rel.items["from_props"],
                                     rel.items["rel_type"], rel.items["to_type"],
                                     rel.items["to_props"], RelPropsOf(rel), fail)
         IN  [store |-> r.store,
              created |-> <<>>,
              errors |-> IF r.kind = "return" THEN <<>>
                         ELSE <<ErrorEntry("Error creating relationship", idx, rel, r.value.msg)>>,
              entry |-> Entry("relationship", idx, TRUE, r.query # NoQuery, r.kind = "return")]
RelationshipPassDropsKeyError(s, idx, rel, fail) ==
    IF ~(RequiredRelFields \subseteq Keys(rel))
    THEN [store |-> s, created |-> <<>>,
          errors |-> <<>>,
          entry |-> Entry("relationship", idx, FALSE, FALSE, FALSE)]
    ELSE LET r == CreateRelationship(s, rel.items["from_type"], rel.items["from_props"],
                                     rel.items["rel_type"], rel.items["to_type"],
                                     rel.items["to_props"], RelPropsOf(rel), fail)
         IN  [store |-> r.store,
              created |-> IF r.kind = "return" THEN <<r.value>> ELSE <<>>,
              errors |-> IF r.kind = "return" THEN <<>>
                         ELSE <<ErrorEntry("Error creating relationship", idx, rel, r.value.msg)>>,
              entry |-> Entry("relationship", idx, TRUE, r.query # NoQuery, r.kind = "return")]
RelationshipPass(s, idx, rel, fail) ==
    IF ~(RequiredRelFields \subseteq Keys(rel))
    THEN [store |-> s, created |-> <<>>,
          errors |-> <<ErrorEntry("Error creating relationship", idx, rel, "KeyError")>>,
          entry |-> Entry("relationship", idx, FALSE, FALSE, FALSE)]
    ELSE LET r == CreateRelationship(s, rel.items["from_type"], rel.items["from_props"],
                                     rel.items["rel_type"], rel.items["to_type"],
                                     rel.items["to_props"], RelPropsOf(rel), fail)
         IN  [store |-> r.store,
              created |-> IF r.kind = "return" THEN <<r.value>> ELSE <<>>,
              errors |-> IF r.kind = "return" THEN <<>>
                         ELSE <<ErrorEntry("Error creating relationship", idx, rel, r.value.msg)>>,
              entry |-> Entry("relationship", idx, TRUE, r.query # NoQuery, r.kind = "return")]

(***************************************************************************)
(* Spec: NumProcs process_task calls run as coroutines on one event loop   *)
(* and one store.  A step of a call runs from one await to the next; the   *)
(* steps of different calls interleave freely.                             *)
(*                                                                         *)
(* extractor = "source" is the class as written: building the prompt       *)
(* (line 283) applies str.format to a template that holds the replacement  *)
(* field {json.dumps(task, indent=2)}, format looks up the argument `json' *)
(* and raises KeyError, so the model is never invoked.                     *)
(* extractor = "stand_in" is the agent with extract_entities_from_task     *)
(* replaced by a stand-in that skips the prompt and does what lines        *)
(* 286-295 do: invoke the model, parse its answer, fall back to the empty  *)
(* extraction.  The code of process_task is the same in both.              *)
(***************************************************************************)
Init ==
    /\ extractor \in {"source", "stand_in"}
    /\ store = EmptyStore
    /\ pc = [p \in Procs |-> "idle"]
    /\ task = [p \in Procs |-> PyNone]
    /\ extraction = [p \in Procs |-> PyNone]
    /\ ei = [p \in Procs |-> 1]
    /\ ri = [p \in Procs |-> 1]
    /\ created_entities = [p \in Procs |-> <<>>]
    /\ created_relationships = [p \in Procs |-> <<>>]
    /\ errors = [p \in Procs |-> <<>>]
    /\ raised = [p \in Procs |-> NoException]
    /\ asked = [p \in Procs |-> 0]
    /\ reply = [p \in Procs |-> [kind |-> "none"]]
    /\ trail = [p \in Procs |-> <<>>]
    /\ order = <<>>
    /\ learn = Awaiting
    /\ LabelAtRest
    /\ AdapterAtRest
    /\ QaAtRest
    /\ OthersAtRest

Raises(p, exc, msg) ==
    /\ pc' = [pc EXCEPT ![p] = "raised"]
    /\ raised' = [raised EXCEPT ![p] = [exc |-> exc, msg |-> msg]]

\* asyncio.gather (line 347) wraps each process_task coroutine in a task and
\* hears of its end through a done callback: the calls that have ended, in
\* the order they ended.
Completion(p) ==
    order' = IF pc'[p] \in {"returned", "raised"} THEN Append(order, p) ELSE order

\* process_task(task) is called: lines 300-306, up to the call of
\* extract_entities_from_task.  The event loop runs the first step of the
\* gathered calls in the order of the list (line 346).
Start(p) ==
    /\ pc[p] = "idle"
    /\ \A q \in Procs : q < p => pc[q] # "idle"
    /\ \E t \in TaskPool :
        /\ task' = [task EXCEPT ![p] = t]
        /\ IF TaskRejected(t)
           THEN Raises(p, "ValueError", "Task cannot be empty")
           ELSE pc' = [pc EXCEPT ![p] = "extract"] /\ UNCHANGED raised
    /\ Completion(p)
    /\ UNCHANGED <<extractor, extraction, ei, ri, created_entities, created_relationships,
                   errors, asked, reply, trail, learn, store, labelVars, adapterVars, qaVars,
                   cancelVars, observerVars, gmailVars>>

\* extract_entities_from_task as written, lines 281-284: user_prompt.format
\* raises KeyError('json'), which leaves process_task at line 306.
BuildMessages(p) ==
    /\ pc[p] = "extract"
    /\ extractor = "source"
    /\ asked' = [asked EXCEPT ![p] = @ + 1]
    /\ Raises(p, "KeyError", "json")
    /\ Completion(p)
    /\ UNCHANGED <<extractor, task, extraction, ei, ri, created_entities,
                   created_relationships, errors, reply, trail, learn, store, labelVars,
                   adapterVars, qaVars,
                   cancelVars, observerVars, gmailVars>>

\* Lines 286-295 and the return to line 306: the model answers (or its call
\* raises), the answer is parsed, and process_task holds the extraction.
InvokeModel(p) ==
    /\ pc[p] = "extract"
    /\ extractor = "stand_in"
    /\ asked' = [asked EXCEPT ![p] = @ + 1]
    /\ \E r \in Replies :
        /\ reply' = [reply EXCEPT ![p] = r]
        /\ IF r.kind = "raise"
           THEN Raises(p, "ModelError", "model call failed") /\ UNCHANGED extraction
           ELSE /\ extraction' = [extraction EXCEPT ![p] = ParseResponse(r)]
                /\ pc' = [pc EXCEPT ![p] = "entities"]
                /\ UNCHANGED raised
    /\ Completion(p)
    /\ UNCHANGED <<extractor, task, ei, ri, created_entities, created_relationships,
                   errors, trail, learn, store, labelVars, adapterVars, qaVars,
                   cancelVars, observerVars, gmailVars>>

\* The entity loop has gone through every entity.
EntitiesDoneAfterFirst(p, entities) == ei[p] > 1 \/ ei[p] > Len(entities)
EntitiesDone(p, entities) == ei[p] > Len(entities)

\* Lines 310-320: one iteration of the entity loop, or its end.
EntityStep(p) ==
    /\ pc[p] = "entities"
    /\ LET l == GetList(extraction[p], "entities")
       IN  IF l.kind = "raise"
           THEN /\ Raises(p, l.exc, "entities")
                /\ UNCHANGED <<ei, created_entities, errors, trail, store>>
           ELSE IF EntitiesDone(p, l.items)
           THEN /\ pc' = [pc EXCEPT ![p] = "relationships"]
                /\ UNCHANGED <<raised, ei, created_entities, errors, trail, store>>
           ELSE \E fail \in BOOLEAN :
                LET r == EntityPass(store, ei[p], l.items[ei[p]], fail)
                IN  /\ store' = r.store
                    /\ created_entities' = [created_entities EXCEPT ![p] = @ \o r.created]
                    /\ errors' = [errors EXCEPT ![p] = @ \o r.errors]
                    /\ trail' = [trail EXCEPT ![p] = Append(@, r.entry)]
                    /\ ei' = [ei EXCEPT ![p] = @ + 1]
                    /\ UNCHANGED <<pc, raised>>
    /\ Completion(p)
    /\ UNCHANGED <<extractor, task, extraction, ri, created_relationships, asked, reply,
                   learn, labelVars, adapterVars, qaVars,
                   cancelVars, observerVars, gmailVars>>

\* Lines 324-340: one iteration of the relationship loop, or its end and
\* the return of the three lists.
RelationshipStep(p) ==
    /\ pc[p] = "relationships"
    /\ LET l == GetList(extraction[p], "relationships")
       IN  IF l.kind = "raise"
           THEN /\ Raises(p, l.exc, "relationships")
                /\ UNCHANGED <<ri, created_relationships, errors, trail, store>>
           ELSE IF ri[p] > Len(l.items)
           THEN /\ pc' = [pc EXCEPT ![p] = "returned"]
                /\ UNCHANGED <<raised, ri, created_relationships, errors, trail, store>>
           ELSE \E fail \in BOOLEAN :
                LET r == RelationshipPass(store, ri[p], l.items[ri[p]], fail)
                IN  /\ store' = r.store
                    /\ created_relationships' =
                           [created_relationships EXCEPT ![p] = @ \o r.created]
                    /\ errors' = [errors EXCEPT ![p] = @ \o r.errors]
                    /\ trail' = [trail EXCEPT ![p] = Append(@, r.entry)]
                    /\ ri' = [ri EXCEPT ![p] = @ + 1]
                    /\ UNCHANGED <<pc, raised>>
    /\ Completion(p)
    /\ UNCHANGED <<extractor, task, extraction, ei, created_entities, asked, reply,
                   learn, labelVars, adapterVars, qaVars,
                   cancelVars, observerVars, gmailVars>>

\* lines 336-340: the value process_task returns
ProcessResult(p) ==
    [created_entities |-> created_entities[p],
     created_relationships |-> created_relationships[p],
     errors |-> errors[p]]

\* The list gather hands back: one result per awaitable, in the order the
\* awaitables were passed (the order of `tasks'), whatever order they ended in.
GatherResultsInCompletionOrder == [i \in 1..Len(order) |-> ProcessResult(order[i])]
GatherResults == [i \in 1..NumProcs |-> ProcessResult(i)]

\* The future `await asyncio.gather(*tasks_to_process)' waits on.  Without
\* return_exceptions the first call that ends by raising sets that exception
\* on the future, and the other calls are left running; the result is set
\* when the last call has ended and none has raised.
GatherOuter ==
    LET failed == {i \in 1..Len(order) : pc[order[i]] = "raised"}
    IN  IF failed # {}
        THEN [state |-> "raised",
              value |-> raised[order[CHOOSE i \in failed : \A j \in failed : i <= j]]]
        ELSE IF Len(order) = NumProcs
        THEN [state |-> "returned", value |-> GatherResults]
        ELSE Awaiting

\* process_task p has run its first step: it has ended, or it is suspended
\* at an await that yields to the event loop (the model call of line 286, a
\* store call of the loops).  Lines 300-306 and 247-284 hold no such await.
RanFirstStep(p) ==
    /\ pc[p] # "idle"
    /\ ~(pc[p] = "extract" /\ extractor = "source")

\* learn_from_tasks (lines 342-348) resumes from the await of line 347 and
\* returns the results or lets the exception through.  Every gathered call
\* has run its first step by then: they were scheduled before the callback
\* that wakes learn_from_tasks.
LearnFromTasksResumes ==
    /\ learn = Awaiting
    /\ \A p \in Procs : RanFirstStep(p)
    /\ GatherOuter # Awaiting
    /\ learn' = GatherOuter
    /\ UNCHANGED <<extractor, pc, task, extraction, ei, ri, created_entities,
                   created_relationships, errors, raised, asked, reply, trail, order,
                   store, labelVars, adapterVars, qaVars,
                   cancelVars, observerVars, gmailVars>>

Next ==
    \/ \E p \in Procs :
        \/ Start(p)
        \/ BuildMessages(p)
        \/ InvokeModel(p)
        \/ EntityStep(p)
        \/ RelationshipStep(p)
    \/ LearnFromTasksResumes

Spec == Init /\ [][Next]_vars

(***************************************************************************)
(* SpecQA: NumProcs answer_question calls (lines 350-356).  Each hands its *)
(* question to the delegated agent (self.agent.ainvoke) and is suspended   *)
(* until the agent answers or an exception arrives at the await.           *)
(***************************************************************************)
QuestionPool == {"Who sent invoice #123?", ""}
AnswerPool == {"Asha", ""}
MessagePool == {"rate limit exceeded", ""}
\* classes derived from Exception, and asyncio.CancelledError, which derives
\* from BaseException only and arrives when the awaiting task is cancelled
ExceptionPool == {"RuntimeError", "ValueError", "CancelledError"}

\* What can come out of `await self.agent.ainvoke({"input": question})'.
AgentOutcomes(question) ==
    {[kind |-> "answer", value |-> [input |-> question, output |-> a]] : a \in AnswerPool}
    \cup {[kind |-> "raise", exc |-> e, msg |-> m] : e \in ExceptionPool, m \in MessagePool}

\* Lines 352-356: the answer is returned as it is; an Exception becomes
\* {"error": f"Failed to answer question: {str(e)}"}; anything else goes through.
AnswerQuestionNoHandler(o) ==
    IF o.kind = "answer" THEN [kind |-> "return", value |-> o.value]
    ELSE [kind |-> "raise", value |-> [exc |-> o.exc, msg |-> o.msg]]
AnswerQuestion(o) ==
    IF o.kind = "answer" THEN [kind |-> "return", value |-> o.value]
    ELSE IF IsException(o.exc)
    THEN [kind |-> "return", value |-> [error |-> "Failed to answer question: " \o o.msg]]
    ELSE [kind |-> "raise", value |-> [exc |-> o.exc, msg |-> o.msg]]

InitQA ==
    /\ QaAtRest
    /\ store = EmptyStore
    /\ LabelAtRest
    /\ AdapterAtRest
    /\ AgentAtRest
    /\ OthersAtRest

\* answer_question(question) is called and reaches the await of line 353.
Ask(p) ==
    /\ qa[p].pc = "idle"
    /\ \E q \in QuestionPool :
        qa' = [qa EXCEPT ![p] = [pc |-> "awaiting", question |-> q]]
    /\ UNCHANGED <<labelVars, store, adapterVars, agentVars,
                   cancelVars, observerVars, gmailVars>>

\* The await of line 353 ends, and answer_question with it.
AgentEnds(p) ==
    /\ qa[p].pc = "awaiting"
    /\ \E o \in AgentOutcomes(qa[p].question) :
        qa' = [qa EXCEPT ![p] = [pc |-> "done", question |-> qa[p].question,
                                 agent |-> o, result |-> AnswerQuestion(o)]]
    /\ UNCHANGED <<labelVars, store, adapterVars, agentVars,
                   cancelVars, observerVars, gmailVars>>

NextQA == \E p \in Procs : Ask(p) \/ AgentEnds(p)
SpecQA == InitQA /\ [][NextQA]_vars

(***************************************************************************)
(* SpecCancel: one task runs a process_task call and an answer_question    *)
(* call and may be cancelled while the call is suspended in the model call *)
(* (line 286) or in a store call of the loops (lines 317, 326): asyncio     *)
(* throws CancelledError into the coroutine at that await.                 *)
(***************************************************************************)
\* CancelledError arrives at an await of process_task p:
\*  - the model call; lines 286 and 306 are in no try block;
\*  - session.run inside create_entity (line 317), in the try block of lines
\*    311-320; the store has applied the statement or not;
\*  - session.run inside create_relationship (line 326), in the try block
\*    of lines 325-334.
Cancel(p) ==
    /\ ~cancelled[p]
    /\ cancelled' = [cancelled EXCEPT ![p] = TRUE]
    /\ \/ /\ pc[p] = "extract" /\ extractor = "stand_in"
          /\ Raises(p, "CancelledError", "")
          /\ UNCHANGED <<store, ei, ri, created_entities, created_relationships,
                         errors, trail>>
       \/ /\ pc[p] = "entities"
          /\ GetList(extraction[p], "entities").kind = "ok"
          /\ ei[p] <= Len(GetList(extraction[p], "entities").items)
          /\ \E applied \in BOOLEAN :
              LET entity == GetList(extraction[p], "entities").items[ei[p]]
                  r == EntityPass(store, ei[p], entity, ~applied)
              IN  /\ r.entry.ran
                  /\ store' = r.store
                  /\ IF IsException("CancelledError")
                     THEN /\ errors' = [errors EXCEPT ![p] =
                                 Append(@, ErrorEntry("Error creating entity", ei[p],
                                                      entity, "CancelledError"))]
                          /\ trail' = [trail EXCEPT ![p] =
                                 Append(@, Entry("entity", ei[p], TRUE, TRUE, FALSE))]
                          /\ ei' = [ei EXCEPT ![p] = @ + 1]
                          /\ UNCHANGED <<pc, raised>>
                     ELSE /\ Raises(p, "CancelledError", "")
                          /\ UNCHANGED <<errors, trail, ei>>
          /\ UNCHANGED <<ri, created_entities, created_relationships>>
       \/ /\ pc[p] = "relationships"
          /\ GetList(extraction[p], "relationships").kind = "ok"
          /\ ri[p] <= Len(GetList(extraction[p], "relationships").items)
          /\ \E applied \in BOOLEAN :
              LET rel == GetList(extraction[p], "relationships").items[ri[p]]
                  r == RelationshipPass(store, ri[p], rel, ~applied)
              IN  /\ r.entry.ran
                  /\ store' = r.store
                  /\ IF IsException("CancelledError")
                     THEN /\ errors' = [errors EXCEPT ![p] =
                                 Append(@, ErrorEntry("Error creating relationship", ri[p],
                                                      rel, "CancelledError"))]
                          /\ trail' = [trail EXCEPT ![p] =
                                 Append(@, Entry("relationship", ri[p], TRUE, TRUE, FALSE))]
                          /\ ri' = [ri EXCEPT ![p] = @ + 1]
                          /\ UNCHANGED <<pc, raised>>
                     ELSE /\ Raises(p, "CancelledError", "")
                          /\ UNCHANGED <<errors, trail, ri>>
          /\ UNCHANGED <<ei, created_entities, created_relationships>>
    /\ Completion(p)
    /\ UNCHANGED <<extractor, task, extraction, asked, reply, learn, labelVars,
                   adapterVars, qaVars, observerVars, gmailVars>>

\* The task runs call 1 of each kind.
NextCancel ==
    \/ Start(1)
    \/ BuildMessages(1)
    \/ InvokeModel(1)
    \/ EntityStep(1)
    \/ RelationshipStep(1)
    \/ Cancel(1)
    \/ Ask(1)
    \/ AgentEnds(1)

SpecCancel == Init /\ [][NextCancel]_vars

(***************************************************************************)
(* SpecObserver: NumProcs observe_email_interaction calls on one Observer  *)
(* (src/agents/observer.py, lines 30-58), run as coroutines on one event   *)
(* loop.  A step of a call runs from one await to the next.                *)
(*                                                                         *)
(* As written, _extract_kg_data (line 50) ends at line 126: str.format is  *)
(* applied to an f-string that still holds the braces of its JSON example, *)
(* and raises before the model is invoked.  _learn_from_interaction does   *)
(* the same at line 211 once the log holds two records.  The knowledge     *)
(* graph agent is the one of Spec: with extractor = "source" its           *)
(* process_task raises KeyError in its first step, with the stand-in the   *)
(* call of line 55 suspends and later returns or raises.                   *)
(***************************************************************************)

\* lines 39-43; the clock is read as the number of calls made so far
Interaction(now, email_data, response_data) ==
    [timestamp |-> now, email_data |-> email_data, response_data |-> response_data]

\* line 44: self.interaction_history.append(interaction)
RecordedFirst(history, interaction) == <<interaction>> \o history
Recorded(history, interaction) == Append(history, interaction)

\* How many calls have been made.
Started == Cardinality({q \in Procs : observing[q].pc # "idle"})

ObserverRaised(p, e, r, rank, at, exc) ==
    [pc |-> "raised", email_data |-> e, response_data |-> r, started |-> rank,
     at |-> at, exc |-> exc]

\* Lines 39-55, up to the first await that suspends: the record is appended,
\* then `"kg_data" not in email_data' (line 47) raises TypeError for None,
\* _extract_kg_data raises (line 126), process_task raises in its first
\* step, or the call is suspended in process_task.  The calls are numbered
\* in the order they are made.
Observe(p) ==
    /\ observing[p].pc = "idle"
    /\ \A q \in Procs : q < p => observing[q].pc # "idle"
    \* email_data: None, an email without "kg_data", an email with it
    /\ \E e \in {PyNone, Dict("subject" :> "Invoice #123"),
                 Dict(("subject" :> "Invoice #123") @@ ("kg_data" :> EmptyExtraction))},
          r \in {PyNone, Dict("body" :> "Paid")} :
        LET rank == Started + 1
        IN  /\ interaction_history' = Recorded(interaction_history, Interaction(rank, e, r))
            /\ observing' = [observing EXCEPT ![p] =
                   IF ~IsDict(e)
                   THEN ObserverRaised(p, e, r, rank, "kg_data", "TypeError")
                   ELSE IF "kg_data" \notin Keys(e)
                   THEN ObserverRaised(p, e, r, rank, "_extract_kg_data", "KeyError")
                   ELSE IF extractor = "source"
                   THEN ObserverRaised(p, e, r, rank, "process_task", "KeyError")
                   ELSE [pc |-> "process_task", email_data |-> e, response_data |-> r,
                         started |-> rank]]
    /\ UNCHANGED <<labelVars, store, adapterVars, agentVars, qaVars, cancelVars, gmailVars>>

\* Line 55 ends.  If process_task raised, so does the call; else line 58:
\* _learn_from_interaction returns at line 160 while the log holds fewer
\* than two records and raises at line 211 otherwise.
GraphUpdated(p) ==
    /\ observing[p].pc = "process_task"
    /\ \E ok \in BOOLEAN :
        LET o == observing[p]
        IN  observing' = [observing EXCEPT ![p] =
                IF ~ok
                THEN ObserverRaised(p, o.email_data, o.response_data, o.started,
                                    "process_task", "Exception")
                ELSE IF Len(interaction_history) < 2
                THEN [pc |-> "returned", email_data |-> o.email_data,
                      response_data |-> o.response_data, started |-> o.started]
                ELSE ObserverRaised(p, o.email_data, o.response_data, o.started,
                                    "_learn_from_interaction", "KeyError")]
    /\ UNCHANGED <<interaction_history, labelVars, store, adapterVars, agentVars, qaVars,
                   cancelVars, gmailVars>>

InitObserver ==
    /\ ObserverAtRest
    /\ extractor \in {"source", "stand_in"}
    /\ pc = [p \in Procs |-> "idle"]
    /\ task = [p \in Procs |-> PyNone]
    /\ extraction = [p \in Procs |-> PyNone]
    /\ ei = [p \in Procs |-> 1]
    /\ ri = [p \in Procs |-> 1]
    /\ created_entities = [p \in Procs |-> <<>>]
    /\ created_relationships = [p \in Procs |-> <<>>]
    /\ errors = [p \in Procs |-> <<>>]
    /\ raised = [p \in Procs |-> NoException]
    /\ asked = [p \in Procs |-> 0]
    /\ reply = [p \in Procs |-> [kind |-> "none"]]
    /\ trail = [p \in Procs |-> <<>>]
    /\ order = <<>>
    /\ learn = Awaiting
    /\ store = EmptyStore
    /\ LabelAtRest
    /\ AdapterAtRest
    /\ QaAtRest
    /\ CancelAtRest
    /\ GmailAtRest

NextObserver == \E p \in Procs : Observe(p) \/ GraphUpdated(p)
SpecObserver == InitObserver /\ [][NextObserver]_vars

(***************************************************************************)
(* SpecGmail: one GmailMonitor (src/integrations/gmail.py) and the calls   *)
(* an application makes on it one after the other: connect, disconnect,    *)
(* fetch_emails, and the iterations of the loop of monitor_inbox.  The     *)
(* mail server is the environment: what it lists, which fetches it         *)
(* answers, and whether it fails a command.                                *)
(*                                                                         *)
(* fetcher = "source" is fetch_emails as written: line 71 calls            *)
(* self._fetch_emails, a method the class does not have (the method of     *)
(* line 78 is _fetch_email), and raises AttributeError at the first email  *)
(* it does not skip.  fetcher = "stand_in" is fetch_emails calling         *)
(* _fetch_email: what the claims about fetched emails take.                *)
(***************************************************************************)
EmailIds == {"1", "2"}
\* what _check_for_invoice finds in the email of this id
HasInvoice(v) == v = "1"

\* imaplib hands out ids as bytes; processed_emails holds str (line 74).
\* email_id.decode()
Decode(b) == [type |-> "str", v |-> b.v]

\* messages[0].split(): the ids the search lists, in ascending order
RECURSIVE Listing(_)
Listing(ids) ==
    IF ids = {} THEN <<>>
    ELSE LET least == CHOOSE v \in ids : \A w \in ids : v = "1" \/ w # "1"
         IN  <<[type |-> "bytes", v |-> least]>> \o Listing(ids \ {least})

\* line 68: `email_id in self.processed_emails', a bytes object looked up
\* in a set of str
AlreadyProcessed(email_id, processed) == email_id \in processed

\* Lines 29-34: connect refuses when the attribute exists, else logs in.
Connect(m, fail) ==
    IF m # "absent" THEN [mail |-> m, kind |-> "raise", exc |-> "ValueError: Already connected to IMAP server"]
    ELSE IF fail THEN [mail |-> m, kind |-> "raise", exc |-> "IMAP4.error"]
    ELSE [mail |-> "connected", kind |-> "return", exc |-> "none"]

\* Lines 42-47: disconnect logs out and keeps the attribute.
Disconnect(m, fail) ==
    IF m = "absent" THEN [mail |-> m, kind |-> "raise", exc |-> "ValueError: Not connected to IMAP server"]
    ELSE IF fail \/ m = "logged_out" THEN [mail |-> "logged_out", kind |-> "raise", exc |-> "IMAP4.error"]
    ELSE [mail |-> "logged_out", kind |-> "return", exc |-> "none"]

\* Lines 67-76: the loop over the listed ids, from the i-th on.  The dict
\* _fetch_email returns (lines 142-152) is kept as its id and has_invoice.
RECURSIVE FetchLoop(_, _, _, _, _, _, _)
FetchLoop(f, email_ids, i, unfetchable, processed, fetched, emails) ==
    IF i > Len(email_ids)
    THEN [kind |-> "return", exc |-> "none", processed |-> processed,
          fetched |-> fetched, emails |-> emails]
    ELSE IF AlreadyProcessed(email_ids[i], processed)
    THEN FetchLoop(f, email_ids, i + 1, unfetchable, processed, fetched, emails)
    ELSE IF f = "source"
    THEN [kind |-> "raise", exc |-> "AttributeError: _fetch_emails", processed |-> processed,
          fetched |-> fetched, emails |-> <<>>]
    ELSE IF email_ids[i].v \in unfetchable
    THEN FetchLoop(f, email_ids, i + 1, unfetchable, processed,
                   Append(fetched, email_ids[i]), emails)
    ELSE FetchLoop(f, email_ids, i + 1, unfetchable,
                   processed \cup {Decode(email_ids[i])},
                   Append(fetched, email_ids[i]), Append(emails, [id |-> Decode(email_ids[i]),
                                   has_invoice |-> HasInvoice(email_ids[i].v)]))

\* Lines 49-76.  status_ok: the search answered OK; listed: the ids it
\* lists; unfetchable: the ids for which _fetch_email returns None.
FetchEmails(f, m, processed, status_ok, listed, unfetchable) ==
    IF m = "absent"
    THEN [kind |-> "raise", exc |-> "AttributeError: mail", processed |-> processed,
          fetched |-> <<>>, emails |-> <<>>]
    ELSE IF m = "logged_out"
    THEN [kind |-> "raise", exc |-> "IMAP4.error", processed |-> processed,
          fetched |-> <<>>, emails |-> <<>>]
    ELSE IF ~status_ok
    THEN [kind |-> "return", exc |-> "none", processed |-> processed,
          fetched |-> <<>>, emails |-> <<>>]
    ELSE FetchLoop(f, Listing(listed), 1, unfetchable, processed, <<>>, <<>>)

\* line 226
RECURSIVE InvoiceEmails(_)
InvoiceEmails(emails) ==
    IF emails = <<>> THEN <<>>
    ELSE (IF Head(emails).has_invoice THEN <<Head(emails)>> ELSE <<>>)
             \o InvoiceEmails(Tail(emails))

InitGmail ==
    /\ fetcher \in {"source", "stand_in"}
    /\ mail = "absent"
    /\ processed_emails = {}
    /\ fetches = <<>>
    /\ iterations = <<>>
    /\ store = EmptyStore
    /\ LabelAtRest
    /\ AdapterAtRest
    /\ AgentAtRest
    /\ QaAtRest
    /\ CancelAtRest
    /\ ObserverAtRest

\* The application calls connect() (as main.py does at line 291).
CallConnect ==
    /\ \E fail \in BOOLEAN : mail' = Connect(mail, fail).mail
    /\ UNCHANGED <<processed_emails, fetches, iterations>>
    /\ UNCHANGED <<fetcher, labelVars, store, adapterVars, agentVars, qaVars, cancelVars,
                   observerVars>>

\* The application calls disconnect().
CallDisconnect ==
    /\ \E fail \in BOOLEAN : mail' = Disconnect(mail, fail).mail
    /\ UNCHANGED <<processed_emails, fetches, iterations>>
    /\ UNCHANGED <<fetcher, labelVars, store, adapterVars, agentVars, qaVars, cancelVars,
                   observerVars>>

\* The application calls fetch_emails().
CallFetchEmails ==
    /\ Len(fetches) < MaxFetches
    /\ \E status_ok \in BOOLEAN, listed \in SUBSET EmailIds :
       \E unfetchable \in SUBSET listed :
        LET r == FetchEmails(fetcher, mail, processed_emails, status_ok, listed, unfetchable)
        IN  /\ processed_emails' = r.processed
            /\ fetches' = Append(fetches, [listed |-> listed, kind |-> r.kind, exc |-> r.exc,
                                      fetched |-> r.fetched, emails |-> r.emails])
    /\ UNCHANGED <<mail, iterations>>
    /\ UNCHANGED <<fetcher, labelVars, store, adapterVars, agentVars, qaVars, cancelVars,
                   observerVars>>

\* One iteration of the loop of monitor_inbox (lines 217-239): connect,
\* fetch_emails, the callback for the invoice emails, disconnect; the first
\* exception ends the try block at line 235, and the loop sleeps.
MonitorIteration ==
    /\ Len(iterations) < MaxIterations
    /\ Len(fetches) < MaxFetches
    /\ \E fail_connect \in BOOLEAN, status_ok \in BOOLEAN, listed \in SUBSET EmailIds,
          callback_raises \in BOOLEAN, fail_disconnect \in BOOLEAN :
       \E unfetchable \in SUBSET listed :
        LET c == Connect(mail, fail_connect)
            r == FetchEmails(fetcher, c.mail, processed_emails, status_ok, listed, unfetchable)
            invoice_emails == InvoiceEmails(r.emails)
            called == r.kind = "return" /\ invoice_emails # <<>>
            d == Disconnect(c.mail, fail_disconnect)
            it == [listed |-> listed, connect |-> c.kind, connect_exc |-> c.exc,
                   fetch |-> "none", callback |-> <<>>, disconnect |-> "none",
                   server_ok |-> /\ ~fail_connect /\ status_ok /\ unfetchable = {}
                                 /\ ~callback_raises /\ ~fail_disconnect]
        IN  IF c.kind = "raise"
            THEN /\ iterations' = Append(iterations, it)
                 /\ UNCHANGED <<mail, processed_emails, fetches>>
            ELSE /\ processed_emails' = r.processed
                 /\ fetches' = Append(fetches, [listed |-> listed, kind |-> r.kind, exc |-> r.exc,
                                      fetched |-> r.fetched, emails |-> r.emails])
                 /\ IF r.kind = "raise" \/ (called /\ callback_raises)
                    THEN /\ mail' = c.mail
                         /\ iterations' = Append(iterations,
                                [it EXCEPT !.fetch = r.kind,
                                           !.callback = IF called THEN invoice_emails ELSE <<>>])
                    ELSE /\ mail' = d.mail
                         /\ iterations' = Append(iterations,
                                [it EXCEPT !.fetch = r.kind,
                                           !.callback = invoice_emails,
                                           !.disconnect = d.kind])
    /\ UNCHANGED <<fetcher, labelVars, store, adapterVars, agentVars, qaVars, cancelVars,
                   observerVars>>

NextGmail == CallConnect \/ CallDisconnect \/ CallFetchEmails \/ MonitorIteration
SpecGmail == InitGmail /\ [][NextGmail]_vars

(***************************************************************************)
(* Claims about the label validator and the adapter                        *)
(***************************************************************************)

\* C3: _validate_label accepts a string if and only if the whole string is
\* a letter followed by letters, digits and underscores; in particular it
\* rejects a string that ends in a newline.
C3_AcceptsExactlyThePattern ==
    verdict # "pending" => (verdict = "ok" <=> FullPattern(label))

\* The entity type labels of an adapter call.
TypeLabels(c) ==
    IF c.op \in {"create_entity", "get_entity", "get_related_entities"}
    THEN {c.entity_type}
    ELSE IF c.op = "create_relationship" THEN {c.from_type, c.to_type}
    ELSE {}

RaisedInvalidLabel == outcome.kind = "raise" /\ outcome.value.msg = InvalidLabelMsg

\* C4: an adapter call given an entity type label that is not a letter
\* followed by letters, digits and underscores raises, sends no statement
\* to the store and leaves the store as it was.
C4_InvalidTypeNeverReachesStore ==
    (\E t \in TypeLabels(call) : ~FullPattern(t)) =>
        /\ outcome.kind = "raise"
        /\ sent = NoQuery
        /\ store = before

\* C5: create_relationship with valid from_type and to_type and a rel_type
\* that fails the label pattern raises the invalid-label error and sends no
\* statement to the store.
C5_RelTypeValidated ==
    ( /\ call.op = "create_relationship"
      /\ FullPattern(call.from_type)
      /\ FullPattern(call.to_type)
      /\ ~FullPattern(call.rel_type) ) =>
        /\ RaisedInvalidLabel
        /\ sent = NoQuery
        /\ store.runs = before.runs

ItemsOrNone(v) == IF Truthy(v) THEN v.items ELSE EmptyMap

\* C6: the statement create_relationship sends binds exactly
\* |from_props| + |to_props| + |rel_props| parameter names, and binds every
\* source-side value under from_<key>, every destination-side value under
\* to_<key> and every edge-side value under rel_<key>, each with its own value.
C6_ParametersNamespacedByRole ==
    (call.op = "create_relationship" /\ sent # NoQuery) =>
        LET fp == call.from_props.items
            tp == call.to_props.items
            rp == ItemsOrNone(call.rel_props)
            bound == sent.params
        IN  /\ Cardinality(DOMAIN bound) =
                  Cardinality(DOMAIN fp) + Cardinality(DOMAIN tp) + Cardinality(DOMAIN rp)
            /\ \A k \in DOMAIN fp :
                  ("from_" \o k) \in DOMAIN bound /\ bound["from_" \o k] = fp[k]
            /\ \A k \in DOMAIN tp :
                  ("to_" \o k) \in DOMAIN bound /\ bound["to_" \o k] = tp[k]
            /\ \A k \in DOMAIN rp :
                  ("rel_" \o k) \in DOMAIN bound /\ bound["rel_" \o k] = rp[k]

\* A create_relationship call whose three property maps all use the key
\* `name', with three different values, sent its statement.
C6_Witness ==
    /\ call.op = "create_relationship"
    /\ sent # NoQuery
    /\ Truthy(call.rel_props)
    /\ "name" \in Keys(call.from_props) \cap Keys(call.to_props) \cap Keys(call.rel_props)
    /\ call.from_props.items["name"] # call.to_props.items["name"]
    /\ call.rel_props.items["name"] # call.to_props.items["name"]
    /\ outcome.kind = "return"

(***************************************************************************)
(* Claims about process_task                                               *)
(***************************************************************************)
Finished(p) == pc[p] \in {"returned", "raised"}
\* process_task holds an extraction whose "entities" it can iterate
HasEntities(p) ==
    /\ reply[p].kind = "content"
    /\ GetList(extraction[p], "entities").kind = "ok"
EntitiesOf(p) == IF HasEntities(p) THEN GetList(extraction[p], "entities").items ELSE <<>>
HasRelationships(p) ==
    /\ reply[p].kind = "content"
    /\ GetList(extraction[p], "relationships").kind = "ok"
RelationshipsOf(p) ==
    IF HasRelationships(p) THEN GetList(extraction[p], "relationships").items ELSE <<>>
MalformedAt(p) == {i \in 1..Len(EntitiesOf(p)) : Malformed(EntitiesOf(p)[i])}
TrailIdx(p) == 1..Len(trail[p])
\* the trail entries of the adapter calls that raised
FailedCalls(p) == {k \in TrailIdx(p) : trail[p][k].called /\ ~trail[p][k].ok}
ErrorsFor(p, what, idx) ==
    {k \in 1..Len(errors[p]) : errors[p][k].what = what /\ errors[p][k].idx = idx}
CountOk(p, kind) ==
    Cardinality({k \in TrailIdx(p) : trail[p][k].kind = kind /\ trail[p][k].ok})

C1_Conclusion(p, m) ==
    /\ pc[p] = "returned"
    /\ Len(created_entities[p]) = Len(EntitiesOf(p)) - 1
    /\ Len(errors[p]) = 1
    /\ \A k \in TrailIdx(p) :
          (trail[p][k].kind = "entity" /\ trail[p][k].idx = m) =>
              ~trail[p][k].called /\ ~trail[p][k].ran

C2_FailedCreateIsolated ==
    \A p \in Procs :
        /\ \A k \in FailedCalls(p) :
              Cardinality(ErrorsFor(p, IF trail[p][k].kind = "entity"
                                       THEN "Error creating entity"
                                       ELSE "Error creating relationship",
                                    trail[p][k].idx)) = 1
        /\ Len(created_entities[p]) = CountOk(p, "entity")
        /\ Len(created_relationships[p]) = CountOk(p, "relationship")
        /\ (HasEntities(p) /\ HasRelationships(p)) => pc[p] # "raised"
        /\ pc[p] = "returned" =>
              Len(trail[p]) = Len(EntitiesOf(p)) + Len(RelationshipsOf(p))

\* A call returned after its first create_entity was rejected for its label,
\* a later create_entity was sent and failed in the store, and its
\* relationship was still attempted.
C2_Witness ==
    \E p \in Procs :
        /\ pc[p] = "returned"
        /\ \E j, k, r \in TrailIdx(p) :
              /\ j < k /\ k < r
              /\ trail[p][j].kind = "entity" /\ trail[p][j].called
              /\ ~trail[p][j].ran /\ ~trail[p][j].ok
              /\ trail[p][k].kind = "entity" /\ trail[p][k].ran /\ ~trail[p][k].ok
              /\ trail[p][r].kind = "relationship" /\ trail[p][r].called
        /\ Len(errors[p]) >= 2

NothingDone(p) ==
    /\ trail[p] = <<>>
    /\ created_entities[p] = <<>>
    /\ created_relationships[p] = <<>>
    /\ errors[p] = <<>>

\* C7: a process_task call given None or an empty task record has raised
\* ValueError as soon as it is past its first step, without calling the
\* extractor, without any store call and without a result.
C7_EmptyTaskRaisesAtOnce ==
    \A p \in Procs :
        (pc[p] # "idle" /\ ~Truthy(task[p])) =>
            /\ pc[p] = "raised"
            /\ raised[p].exc = "ValueError"
            /\ asked[p] = 0
            /\ reply[p].kind = "none"
            /\ NothingDone(p)

\* A call given the empty dict has raised while another call is under way.
C7_Witness ==
    \E p, q \in Procs :
        /\ pc[p] = "raised"
        /\ IsDict(task[p]) /\ ~Truthy(task[p])
        /\ pc[q] \in {"entities", "relationships"}

\* C8: a process_task call given a non-empty task record never raises.
C8_NonEmptyTaskNeverRaises ==
    \A p \in Procs : (pc[p] # "idle" /\ Truthy(task[p])) => pc[p] # "raised"

ModelAnsweredNotJson(p) == reply[p].kind = "content" /\ ~reply[p].json

\* C9: once the model has answered a call with text that is not JSON, the
\* call holds the empty extraction, does not raise, makes no store call and
\* its three lists stay empty.
C9_UnparseableReplyGivesEmptyResult ==
    \A p \in Procs :
        ModelAnsweredNotJson(p) =>
            /\ pc[p] \in {"entities", "relationships", "returned"}
            /\ GetList(extraction[p], "entities") = [kind |-> "ok", items |-> <<>>]
            /\ GetList(extraction[p], "relationships") = [kind |-> "ok", items |-> <<>>]
            /\ NothingDone(p)

\* A call whose model answered with unparseable text has returned.
C9_Witness ==
    \E p \in Procs : ModelAnsweredNotJson(p) /\ pc[p] = "returned" /\ NothingDone(p)

\* C10: in every process_task call the items are gone through in extraction
\* order, all N entities first: the k-th step of the call is entity k for
\* k <= N and relationship k - N after that, whatever other calls do
\* in between.
C10_EntitiesBeforeRelationships ==
    \A p \in Procs :
        \A k \in TrailIdx(p) :
            LET n == Len(EntitiesOf(p))
            IN  IF k <= n
                THEN trail[p][k].kind = "entity" /\ trail[p][k].idx = k
                ELSE trail[p][k].kind = "relationship" /\ trail[p][k].idx = k - n

\* One call has sent a create_relationship statement after all of its
\* MaxEntities entities, while another call is in the middle of its entity loop.
C10_Witness ==
    \E p, q \in Procs :
        /\ p # q
        /\ Len(EntitiesOf(p)) = MaxEntities
        /\ Len(trail[p]) > MaxEntities
        /\ trail[p][Len(trail[p])].kind = "relationship" /\ trail[p][Len(trail[p])].ran
        /\ pc[q] = "entities"
        /\ Len(EntitiesOf(q)) = MaxEntities
        /\ Len(trail[q]) = 1 /\ trail[q][1].ran

\* Every entity of the extraction has a type the label pattern admits and a
\* properties field; every relationship has all required fields; every
\* statement sent to the store succeeded.
C16_Premise(p) ==
    /\ HasEntities(p)
    /\ HasRelationships(p)
    /\ Finished(p)
    /\ \A i \in 1..Len(EntitiesOf(p)) :
          /\ ~Malformed(EntitiesOf(p)[i])
          /\ FullPattern(EntitiesOf(p)[i].items["type"])
    /\ \A j \in 1..Len(RelationshipsOf(p)) :
          RequiredRelFields \subseteq Keys(RelationshipsOf(p)[j])
    /\ \A k \in TrailIdx(p) : trail[p][k].ran => trail[p][k].ok
C16_Conclusion(p) ==
    /\ pc[p] = "returned"
    /\ Len(created_entities[p]) = Len(EntitiesOf(p))
    /\ Len(created_relationships[p]) = Len(RelationshipsOf(p))
    /\ errors[p] = <<>>

C11_ResultsInInputOrder ==
    learn.state = "returned" =>
        /\ Len(learn.value) = NumProcs
        /\ \A i \in Procs :
              /\ pc[i] = "returned"
              /\ learn.value[i].created_entities = created_entities[i]
              /\ learn.value[i].created_relationships = created_relationships[i]
              /\ learn.value[i].errors = errors[i]

\* learn_from_tasks returned after the call for the last record ended
\* first, and the first and the last result differ.
C11_Witness ==
    /\ learn.state = "returned"
    /\ order[1] = NumProcs
    /\ order[Len(order)] = 1
    /\ created_entities[1] # created_entities[NumProcs]

\* The extractor call of process_task p raised: the model call of line 286,
\* or the prompt formatting of line 283.
ExtractorRaised(p) ==
    /\ asked[p] = 1
    /\ pc[p] = "raised"
    /\ raised[p].exc \in {"ModelError", "KeyError"}

\* C12: when every record is non-empty and the extractor call of some
\* record raised, learn_from_tasks still returns one result per record in
\* input order, and the result of that record is three empty lists.
C12_ExtractorFailureGivesFallback ==
    ( /\ learn.state # "awaiting"
      /\ \A p \in Procs : Truthy(task[p])
      /\ \E k \in Procs : ExtractorRaised(k) ) =>
        /\ learn.state = "returned"
        /\ Len(learn.value) = NumProcs
        /\ \A k \in Procs :
              ExtractorRaised(k) =>
                  /\ learn.value[k].created_entities = <<>>
                  /\ learn.value[k].created_relationships = <<>>
                  /\ learn.value[k].errors = <<>>

C14_AgentExceptionNeverEscapes ==
    \A p \in Procs :
        qa[p].pc = "done" =>
            /\ qa[p].agent.kind = "answer" =>
                  /\ qa[p].result.kind = "return"
                  /\ qa[p].result.value = qa[p].agent.value
                  /\ qa[p].result.value.input = qa[p].question
            /\ (qa[p].agent.kind = "raise" /\ qa[p].agent.exc # "CancelledError") =>
                  /\ qa[p].result.kind = "return"
                  /\ qa[p].result.value =
                         [error |-> "Failed to answer question: " \o qa[p].agent.msg]
            /\ qa[p].result.kind = "raise" => qa[p].agent.exc = "CancelledError"

\* One call returned the error value for an agent that raised RuntimeError
\* with a message, another returned its agent's answer.
C14_Witness ==
    \E p, q \in Procs :
        /\ qa[p].pc = "done" /\ qa[q].pc = "done"
        /\ qa[p].agent.kind = "raise" /\ qa[p].agent.exc = "RuntimeError"
        /\ qa[p].agent.msg # ""
        /\ qa[p].result.kind = "return"
        /\ qa[q].agent.kind = "answer"
        /\ qa[q].result.kind = "return"

(***************************************************************************)
(* Claims about the schema and the adapter's reads and writes              *)
(***************************************************************************)
NoRepeats(seq) == \A i, j \in 1..Len(seq) : i # j => seq[i] # seq[j]
SchemaComplete(s) ==
    /\ Range(s.constraints) =
          {[label |-> <<"T", "a", "s", "k">>, key |-> "task_id"],
           [label |-> <<"P", "e", "r", "s", "o", "n">>, key |-> "name"],
           [label |-> <<"T", "o", "o", "l">>, key |-> "name"]}
    /\ Range(s.indexes) =
          {[label |-> <<"T", "a", "s", "k">>, key |-> "task_type"],
           [label |-> <<"T", "a", "s", "k">>, key |-> "status"]}

\* C15: after any number of initialize_schema calls the store holds no
\* constraint and no index twice; a call that returns leaves exactly the
\* three uniqueness constraints and the two indexes; and a call made when
\* they are all there already, which the store does not fail for a reason of
\* its own, returns without error and leaves schema, nodes and edges as
\* they were.
C15_InitializeSchemaIdempotent ==
    /\ NoRepeats(store.constraints) /\ NoRepeats(store.indexes)
    /\ (call.op = "initialize_schema" /\ outcome.kind = "return") =>
          /\ SchemaComplete(store)
          /\ Len(store.constraints) = 3 /\ Len(store.indexes) = 2
    /\ (call.op = "initialize_schema" /\ call.fail_at = 0 /\ SchemaComplete(before)) =>
          /\ outcome.kind = "return"
          /\ store.constraints = before.constraints
          /\ store.indexes = before.indexes
          /\ store.nodes = before.nodes
          /\ store.edges = before.edges

\* initialize_schema returned from a call made after an earlier call had
\* sent its five statements and set up the whole schema.
C15_Witness ==
    /\ call.op = "initialize_schema"
    /\ SchemaComplete(before)
    /\ before.runs >= 5
    /\ outcome.kind = "return"
    /\ store.runs = before.runs + 5

\* The nodes of store s with label lab that hold every property of props.
NodesWith(s, lab, props) ==
    {i \in 1..Len(s.nodes) :
        /\ s.nodes[i].label = lab
        /\ \A k \in DOMAIN props :
              k \in DOMAIN s.nodes[i].props /\ s.nodes[i].props[k] = props[k]}

\* C17: get_entity with a valid type and an empty property map raises the
\* error for an empty match, sends no statement and leaves the store as it was.
C17_EmptyPropertiesRejected ==
    ( /\ call.op = "get_entity"
      /\ FullPattern(call.entity_type)
      /\ IsDict(call.properties)
      /\ Keys(call.properties) = {} ) =>
        /\ outcome.kind = "raise"
        /\ outcome.value.exc = "ValueError"
        /\ outcome.value.msg = "Properties cannot be empty for entity matching"
        /\ sent = NoQuery
        /\ store = before

\* get_entity was called with an empty property map on a store that holds a
\* node of the type.
C17_Witness ==
    /\ call.op = "get_entity"
    /\ FullPattern(call.entity_type)
    /\ IsDict(call.properties) /\ Keys(call.properties) = {}
    /\ NodesWith(before, call.entity_type, EmptyMap) # {}
    /\ outcome.kind = "raise"

\* C18: a get_entity call with a valid type that returns gives None exactly
\* when no node of the type holds every given property with the given
\* value, and otherwise one node of the store that has the type and holds
\* every given property; no get_entity call changes nodes, edges or schema.
C18_GetEntityConjunctiveMatch ==
    call.op = "get_entity" =>
        /\ store.nodes = before.nodes
        /\ store.edges = before.edges
        /\ store.constraints = before.constraints
        /\ store.indexes = before.indexes
        /\ (outcome.kind = "return" /\ FullPattern(call.entity_type)) =>
              LET M == NodesWith(before, call.entity_type, call.properties.items)
              IN  /\ outcome.value.summary = "None" <=> M = {}
                  /\ M # {} =>
                        /\ outcome.value.summary = "node"
                        /\ outcome.value.id \in M
                        /\ outcome.value.node = before.nodes[outcome.value.id]

\* get_entity with two properties returned the one node that holds both,
\* passing by an earlier node of the type that holds only one of them.
C18_Witness ==
    /\ call.op = "get_entity"
    /\ outcome.kind = "return"
    /\ Cardinality(Keys(call.properties)) = 2
    /\ outcome.value.summary = "node"
    /\ outcome.value.id = 2
    /\ before.nodes[1].label = call.entity_type
    /\ \E k \in Keys(call.properties) :
          k \in DOMAIN before.nodes[1].props
              /\ before.nodes[1].props[k] = call.properties.items[k]

\* C19: a create_relationship call with valid from_type and to_type that
\* returns has added exactly one edge of rel_type from each node of
\* from_type holding all from_props to each node of to_type holding all
\* to_props, has kept every earlier edge, and has added or changed no node.
C19_CrossProductEdges ==
    ( /\ call.op = "create_relationship"
      /\ outcome.kind = "return"
      /\ FullPattern(call.from_type)
      /\ FullPattern(call.to_type) ) =>
        LET S == NodesWith(before, call.from_type, call.from_props.items)
            D == NodesWith(before, call.to_type, call.to_props.items)
            added == store.edges \ before.edges
        IN  /\ before.edges \subseteq store.edges
            /\ Cardinality(added) = Cardinality(S) * Cardinality(D)
            /\ \A e \in added : e.type = call.rel_type /\ e.from \in S /\ e.to \in D
            /\ \A a \in S, b \in D :
                  Cardinality({e \in added : e.from = a /\ e.to = b}) = 1
            /\ store.nodes = before.nodes

\* A create_relationship call matched two sources and two destinations and
\* added four edges.
C19_Witness ==
    /\ call.op = "create_relationship"
    /\ outcome.kind = "return"
    /\ FullPattern(call.from_type)
    /\ Cardinality(NodesWith(before, call.from_type, call.from_props.items)) = 2
    /\ Cardinality(NodesWith(before, call.to_type, call.to_props.items)) = 2
    /\ Cardinality(store.edges \ before.edges) = 4

\* A create_entity call with a valid type and a property map, made on a
\* store that holds a node of that type with exactly these properties.
RepeatedCreate ==
    /\ call.op = "create_entity"
    /\ FullPattern(call.entity_type)
    /\ IsDict(call.properties)
    /\ \E i \in 1..Len(before.nodes) :
          /\ before.nodes[i].label = call.entity_type
          /\ before.nodes[i].props = call.properties.items
\* The call added a node and the store holds two nodes of the call's type
\* and properties.
SecondNodeCreated ==
    /\ outcome.kind = "return"
    /\ store.nodes = Append(before.nodes, [label |-> call.entity_type,
                                           props |-> call.properties.items])
    /\ Cardinality({i \in 1..Len(store.nodes) :
                       /\ store.nodes[i].label = call.entity_type
                       /\ store.nodes[i].props = call.properties.items}) >= 2
FailedByStoreItself == outcome.kind = "raise" /\ outcome.value.msg = "store failure"
Constrained(s, lab, props) ==
    \E r \in Range(s.constraints) : r.label = lab /\ r.key \in DOMAIN props

\* C20, as claimed: a create_entity call that repeats the type and the
\* properties of an earlier successful one, and that the store does not
\* fail for a reason of its own, succeeds and leaves two distinct nodes,
\* in every store configuration, also after initialize_schema.
C20_NeverDeduplicates ==
    (RepeatedCreate /\ ~FailedByStoreItself) => SecondNodeCreated

\* C20, amended: such a call succeeds and leaves two distinct nodes unless
\* a uniqueness constraint of the store covers the type and one of the
\* given properties; then it raises the store's constraint error and adds
\* no node.
C20_NeverDeduplicatesUnlessConstrained ==
    (RepeatedCreate /\ ~FailedByStoreItself) =>
        IF Constrained(before, call.entity_type, call.properties.items)
        THEN /\ outcome.kind = "raise"
             /\ outcome.value.exc = "ConstraintError"
             /\ store.nodes = before.nodes
        ELSE SecondNodeCreated

\* After initialize_schema, a second create_entity of a type without
\* constraint left two nodes of equal type and properties.
C20_Witness ==
    /\ RepeatedCreate
    /\ Keys(call.properties) # {}
    /\ SecondNodeCreated
    /\ Len(store.constraints) = 3

(***************************************************************************)
(* Claims about get_related_entities and the text of the statements        *)
(***************************************************************************)

\* The nodes at 1 to depth edges, in either direction, from a node of the
\* given type that has all the given properties.
ExpectedRelated ==
    Within(before, MatchIds(before, call.entity_type, call.properties.items), call.depth)

\* C22: get_related_entities with a valid type, a non-empty property map
\* and a depth of at least 1, which the store does not fail for a reason of
\* its own, returns the nodes within depth edges of a matching node and
\* leaves the nodes and edges of the store as they were.
C22_RelatedEntitiesReturned ==
    (/\ call.op = "get_related_entities"
     /\ FullPattern(call.entity_type)
     /\ Truthy(call.properties)
     /\ call.depth >= 1
     /\ ~FailedByStoreItself) =>
        /\ outcome.kind = "return"
        /\ outcome.value.ids = ExpectedRelated
        /\ store.nodes = before.nodes
        /\ store.edges = before.edges

\* The parameter names the text of an adapter call's statement refers to:
\* "$k" for each key in create_entity (line 36) and get_entity (line 53).
Referenced(c) ==
    IF c.op \in {"create_entity", "get_entity"} THEN Keys(c.properties)
    ELSE IF c.op = "create_relationship"
    THEN RelationshipReferenced(c.from_props, c.to_props, c.rel_props)
    ELSE RelatedReferenced(c.entity_type, c.properties)

BuildsQuery(c) ==
    c.op \in {"create_entity", "get_entity", "create_relationship", "get_related_entities"}

\* C27: in every statement that create_entity, get_entity,
\* create_relationship or get_related_entities sends, the parameter names
\* the text refers to are exactly the parameter names the call binds.
C27_ReferencedEqualsBound ==
    (BuildsQuery(call) /\ sent # NoQuery) => Referenced(call) = DOMAIN sent.params

\* Property maps to compare a create_entity call against.
OtherProperties == PropsPool \cup {Dict("id" :> "1"), Dict("name" :> "z")}

\* C23: the text of the statement create_entity sends depends on the type
\* label and on the number of properties only: a call with the same label
\* and any other map of as many properties sends the same text.
C23_TextDependsOnLabelOnly ==
    (call.op = "create_entity" /\ sent # NoQuery) =>
        \A q \in OtherProperties :
            (IsDict(q) /\ Cardinality(Keys(q)) = Cardinality(Keys(call.properties))) =>
                CreateEntity(before, call.entity_type, q, FALSE).query.text = sent.text

(***************************************************************************)
(* Claims about what process_task leaves in the store and in its result    *)
(***************************************************************************)

\* The store after the entity loop and the relationship loop of one
\* process_task call have gone through an extraction with no store failure.
RECURSIVE EntitiesApplied(_, _, _)
EntitiesApplied(s, es, i) ==
    IF i > Len(es) THEN s
    ELSE EntitiesApplied(EntityPass(s, i, es[i], FALSE).store, es, i + 1)
RECURSIVE RelationshipsApplied(_, _, _)
RelationshipsApplied(s, rs, j) ==
    IF j > Len(rs) THEN s
    ELSE RelationshipsApplied(RelationshipPass(s, j, rs[j], FALSE).store, rs, j + 1)
AppliedOnce(p) ==
    RelationshipsApplied(EntitiesApplied(EmptyStore, EntitiesOf(p), 1), RelationshipsOf(p), 1)

\* Calls 1 and 2 were given the same extraction, both returned with no
\* error, and call 1 created its entities before call 2 created any.
SameExtractionTwice ==
    /\ pc[1] = "returned" /\ pc[2] = "returned"
    /\ extraction[1] = extraction[2]
    /\ errors[1] = <<>> /\ errors[2] = <<>>
    /\ order = <<1, 2>>
    /\ \A k \in 1..Len(created_entities[1]) : \A m \in 1..Len(created_entities[2]) :
          created_entities[1][k].id < created_entities[2][m].id

OkItems(p, kind) ==
    {trail[p][k].idx : k \in {n \in TrailIdx(p) : trail[p][n].kind = kind /\ trail[p][n].ok}}
OkAt(p, kind, k) ==
    CHOOSE i \in OkItems(p, kind) : Cardinality({j \in OkItems(p, kind) : j < i}) = k - 1
EntityErrors(p, i) ==
    ErrorsFor(p, "Invalid entity structure", i) \cup ErrorsFor(p, "Error creating entity", i)

\* C26: when process_task returns, the three lists hold one outcome for
\* every extracted entity and every extracted relationship: their lengths
\* add up to the number of items, an item is in a created list or has one
\* entry in errors and never both, and the created lists hold the items
\* that succeeded in extraction order.
C26_OneOutcomePerItem ==
    \A p \in Procs : pc[p] = "returned" =>
        LET E == EntitiesOf(p)
            R == RelationshipsOf(p)
            ce == created_entities[p]
            cr == created_relationships[p]
        IN  /\ Len(ce) + Len(cr) + Len(errors[p]) = Len(E) + Len(R)
            /\ Len(ce) = Cardinality(OkItems(p, "entity"))
            /\ Len(cr) = Cardinality(OkItems(p, "relationship"))
            /\ \A i \in 1..Len(E) :
                  Cardinality(EntityErrors(p, i)) = IF i \in OkItems(p, "entity") THEN 0 ELSE 1
            /\ \A j \in 1..Len(R) :
                  Cardinality(ErrorsFor(p, "Error creating relationship", j)) =
                      IF j \in OkItems(p, "relationship") THEN 0 ELSE 1
            /\ \A k \in 1..Len(ce) :
                  /\ ce[k].type = E[OkAt(p, "entity", k)].items["type"]
                  /\ k > 1 => ce[k - 1].id < ce[k].id
            /\ \A k \in 1..Len(cr) :
                  LET rel == R[OkAt(p, "relationship", k)].items
                  IN  /\ cr[k].from_type = rel["from_type"]
                      /\ cr[k].rel_type = rel["rel_type"]
                      /\ cr[k].to_type = rel["to_type"]

\* A call returned after two entities, one created and one not, and a
\* relationship that was created.
C26_Witness ==
    \E p \in Procs :
        /\ pc[p] = "returned"
        /\ Len(EntitiesOf(p)) = 2
        /\ Len(created_entities[p]) = 1
        /\ Len(created_relationships[p]) = 1
        /\ Len(errors[p]) = 1

\* Call p is at an item of the relationship loop that has every required
\* field, valid type labels, property maps that are not empty and a
\* relationship type the store parses, and no (source, destination) pair
\* of the store matches it.
AtUnmatchedRelationship(p) ==
    /\ pc[p] = "relationships"
    /\ HasRelationships(p)
    /\ ri[p] <= Len(RelationshipsOf(p))
    /\ LET rel == RelationshipsOf(p)[ri[p]]
       IN  /\ RequiredRelFields \subseteq Keys(rel)
           /\ FullPattern(rel.items["from_type"]) /\ FullPattern(rel.items["to_type"])
           /\ StoreParses(rel.items["rel_type"])
           /\ Truthy(rel.items["from_props"]) /\ Truthy(rel.items["to_props"])
           /\ \/ MatchIds(store, rel.items["from_type"], rel.items["from_props"].items) = {}
              \/ MatchIds(store, rel.items["to_type"], rel.items["to_props"].items) = {}

\* The store call of the step failed for a reason of the store's own.
StoreFailedIn(p) ==
    /\ Len(errors'[p]) = Len(errors[p]) + 1
    /\ errors'[p][Len(errors'[p])].msg = "store failure"

\* C28: when process_task passes a relationship that no pair of nodes
\* matches to create_relationship and the store call does not fail, the
\* nodes and edges of the store stay as they were, the success summary is
\* appended to created_relationships and nothing is appended to errors.
C28_SummaryWithoutMatch ==
    [][\A p \in Procs :
          (AtUnmatchedRelationship(p) /\ ri'[p] = ri[p] + 1 /\ ~StoreFailedIn(p)) =>
              LET rel == RelationshipsOf(p)[ri[p]].items
              IN  /\ store'.nodes = store.nodes
                  /\ store'.edges = store.edges
                  /\ created_relationships'[p] =
                         Append(created_relationships[p],
                                [summary |-> "Created relationship",
                                 from_type |-> rel["from_type"],
                                 rel_type |-> rel["rel_type"],
                                 to_type |-> rel["to_type"]])
                  /\ errors'[p] = errors[p]]_vars

\* A call returned with a created relationship while the store holds no
\* edge: the summary was appended although no pair matched.
C28_Witness ==
    \E p \in Procs :
        /\ pc[p] = "returned"
        /\ Len(created_relationships[p]) = 1
        /\ errors[p] = <<>>
        /\ store.edges = {}

(***************************************************************************)
(* Claim about cancellation                                                *)
(***************************************************************************)

\* The agent's await of answer_question p ended with CancelledError.
AgentCancelled(q) ==
    /\ q.pc = "done"
    /\ q.agent.kind = "raise"
    /\ q.agent.exc = "CancelledError"

\* C24: a cancellation that reaches process_task at the model call or at a
\* store call leaves the call as CancelledError and adds nothing to its
\* lists; after it the call goes through no further entity or
\* relationship; and answer_question lets a CancelledError of the agent
\* through instead of returning an error value.
C24_CancellationPropagates ==
    [][\A p \in Procs :
          /\ (~cancelled[p] /\ cancelled'[p]) =>
                /\ pc'[p] = "raised"
                /\ raised'[p].exc = "CancelledError"
                /\ errors'[p] = errors[p]
                /\ created_entities'[p] = created_entities[p]
                /\ created_relationships'[p] = created_relationships[p]
          /\ cancelled[p] =>
                /\ pc'[p] = "raised"
                /\ ei'[p] = ei[p] /\ ri'[p] = ri[p]
                /\ trail'[p] = trail[p]
                /\ errors'[p] = errors[p]
                /\ store' = store
          /\ AgentCancelled(qa'[p]) =>
                /\ qa'[p].result.kind = "raise"
                /\ qa'[p].result.value.exc = "CancelledError"]_vars

\* A call was cancelled in a store call after an earlier item had gone
\* through, and an answer_question call was cancelled in the agent.
C24_Witness ==
    /\ cancelled[1]
    /\ pc[1] = "raised"
    /\ Len(trail[1]) >= 1
    /\ AgentCancelled(qa[1])

(***************************************************************************)
(* Claim about the Observer's interaction log                              *)
(***************************************************************************)

\* C25: in every state of every interleaving of observe_email_interaction
\* calls, the log holds one record per call made, the record of the k-th
\* call made is the k-th record and holds the data the call was given,
\* whether the call is suspended, has returned or has raised.
C25_LogFollowsStartOrder ==
    /\ Len(interaction_history) = Started
    /\ \A p \in Procs : observing[p].pc # "idle" =>
          /\ observing[p].started \in 1..Len(interaction_history)
          /\ interaction_history[observing[p].started] =
                Interaction(observing[p].started, observing[p].email_data,
                            observing[p].response_data)

\* A call was suspended in its graph update, which then raised, and the
\* record of the call is in the log before that of a call made after it.
C25_Witness ==
    \E p, q \in Procs :
        /\ observing[p].pc = "raised"
        /\ observing[p].at = "process_task"
        /\ extractor = "stand_in"
        /\ observing[q].pc # "idle"
        /\ observing[p].started < observing[q].started
        /\ Len(interaction_history) >= 2

(***************************************************************************)
(* Claims about the Gmail monitor                                          *)
(***************************************************************************)

Ids(seq) == {seq[i].v : i \in 1..Len(seq)}
ReturnedIds(f) == {f.emails[i].id.v : i \in 1..Len(f.emails)}

C30_EveryIterationPolls ==
    \A k \in 1..Len(iterations) :
        iterations[k].server_ok =>
            /\ iterations[k].connect = "return"
            /\ iterations[k].fetch = "return"
            /\ {iterations[k].callback[i].id.v : i \in 1..Len(iterations[k].callback)} =
                  {v \in iterations[k].listed : HasInvoice(v)}
            /\ iterations[k].disconnect = "return"

====
